---- MODULE Spec2Model ----
(***************************************************************************)
(* mm2nw: conversion of a FreeMind mindmap into a novelWriter project.     *)
(*                                                                         *)
(* The module holds four state machines over one set of variables:         *)
(*   SpecHandles  the Handles allocator (mm2nw.py, class Handles);          *)
(*   SpecExhaust  the allocator when the candidates of a seed run out;      *)
(*   SpecRead     MmFile.read (mm2yw7lib/mm_file.py);                       *)
(*   Spec         MmNwConverter.run (mm2nwlib/mm_nw_converter.py) with the  *)
(*                file system it acts on.                                   *)
(* Python strings that are inspected character by character (handles) are  *)
(* sequences of one-character strings; None is the string "None_".         *)
(***************************************************************************)
EXTENDS Integers, Sequences, FiniteSets, TLC

VARIABLES
    nwHandles,  \* allocator -> Handles._handles (a list of handles)
    kdf,        \* the key derivation: seed text -> its behaviour
    calls,      \* allocator -> the calls made on it, with their results
    lastCall,   \* the latest call: its allocator and the list before it
    mm,         \* the mindmap file: whether it is XML, and its root element
    kwargs,     \* the settings and options passed to the file objects
    novel,      \* sourceFile.novel
    rpc,        \* MmFile.read: "start", "loop" (over the top-level nodes), "done"
    rpos,       \* MmFile.read: the index of the next top-level node
    rres,       \* MmFile.read: what it returned or raised
    sourcePath, \* run: the source path, its extension, whether it is a file
    dirs,       \* the file system: directory path -> what the directory holds
    dirs0,      \* the file system when the current run began
    cwdLock,    \* whether the file '{prjDir}/nwProject.lock' exists
    ui,         \* converter.ui: its class and the answer the user gives
    uiLog,      \* the calls made on the ui during the current run
    ioLog,      \* the file operations of the current run
    newFile,    \* converter.newFile
    exc,        \* run: the exception caught, or None
    pc,         \* run: the position in it
    runs,       \* the number of runs begun
    outcomes,   \* what each finished run left behind
    w,          \* NwxFile.write: its local variables and the position in it
    markup,     \* NwdNovelFile: a scene text and its two conversions
    reader      \* NwxFile.read: the reader's counters and the position in it

hvars == <<nwHandles, kdf, calls, lastCall>>

rvars == <<mm, kwargs, novel, rpc, rpos, rres>>

cvars == <<sourcePath, dirs, dirs0, cwdLock, ui, uiLog, ioLog, newFile, exc, pc,
           runs, outcomes, w>>

lvars == <<markup, reader>>

vars == <<nwHandles, kdf, calls, lastCall, mm, kwargs, novel, rpc, rpos, rres,
          sourcePath, dirs, dirs0, cwdLock, ui, uiLog, ioLog, newFile, exc, pc,
          runs, outcomes, w, markup, reader>>

None == "None_"

Range(s) == {s[i] : i \in DOMAIN s}

(***************************************************************************)
(* Handles (mm2nw.py 1151-1222)                                            *)
(***************************************************************************)

HANDLE_CHARS == <<"a", "b", "c", "d", "e", "f", "0", "1", "2", "3", "4", "5", "6", "7", "8", "9">>

SIZE == 13

\* The salt above which create_member gives up (i > 1000).
MAX_SALT == 1000

\* An integer of arbitrary size is the sequence of its base-16 digits, least
\* significant first (int.from_bytes(key, byteorder='big')).
IsPositive(keyInt) == \E i \in DOMAIN keyInt : keyInt[i] # 0

Mod16(keyInt) == IF keyInt = <<>> THEN 0 ELSE Head(keyInt)

Div16(keyInt) == IF keyInt = <<>> THEN <<>> ELSE Tail(keyInt)

Digit(n, k) == CASE k = 0 -> n % 16
                 [] k = 1 -> (n \div 16) % 16
                 [] OTHER -> (n \div 256) % 16

\* pbkdf2_hmac('sha1', text, bytes(salt), 1) is a library function of the
\* seed text and the salt.  Its behaviour on a seed is a record:
\*   cls  the seed's hash class: the low 13 digits of the key are decided by
\*        cls % 4, cls \div 16 and the salt, the digit above them by
\*        (cls \div 4) % 4;
\*   bad  the salts below bad give a key below 16^12 (a candidate of 12
\*        characters).
pbkdf2_hmac(k, text, salt) ==
    IF salt < k[text].bad
    THEN <<k[text].cls % 4, Digit(salt, 0), Digit(salt, 1), Digit(salt, 2),
           0, 0, 0, 0, 0, 0, 0, 1>>
    ELSE <<k[text].cls % 4, Digit(salt, 0), Digit(salt, 1), Digit(salt, 2),
           Digit(k[text].cls, 1), Digit(k[text].cls, 2),
           0, 0, 0, 0, 0, 0, 0, 1 + ((k[text].cls \div 4) % 4)>>

RECURSIVE handle_loop(_, _)
handle_loop(handle, keyInt) ==
    IF Len(handle) < SIZE /\ IsPositive(keyInt)
    THEN handle_loop(Append(handle, HANDLE_CHARS[Mod16(keyInt) + 1]), Div16(keyInt))
    ELSE handle

create_handle(k, text, salt) == handle_loop(<<>>, pbkdf2_hmac(k, text, salt))

has_member(handles, handle) == handle \in Range(handles)

\* add_member without the test of the length (mutant).
add_member_any_length(handles, handle) ==
    IF has_member(handles, handle) THEN [handles |-> handles, ret |-> FALSE]
    ELSE IF \E i \in DOMAIN handle : handle[i] \notin Range(HANDLE_CHARS)
         THEN [handles |-> handles, ret |-> FALSE]
    ELSE [handles |-> Append(handles, handle), ret |-> TRUE]

\* add_member: the list after the call and the value returned.
add_member(handles, handle) ==
    IF has_member(handles, handle) THEN [handles |-> handles, ret |-> FALSE]
    ELSE IF Len(handle) # SIZE THEN [handles |-> handles, ret |-> FALSE]
    ELSE IF \E i \in DOMAIN handle : handle[i] \notin Range(HANDLE_CHARS)
         THEN [handles |-> handles, ret |-> FALSE]
    ELSE [handles |-> Append(handles, handle), ret |-> TRUE]

\* The while loop of create_member tries the candidates of the salts 0, 1,
\* 2, ... in this order; a rejected candidate leaves the list as it was.
\* first_accepted(.., lo, hi) is the value of the loop counter i when the
\* loop, started at salt lo, is left at or before salt hi: the first salt
\* whose candidate add_member accepts, or hi + 1 when it accepts none.
first_accepted(handles, k, text, lo, hi) ==
    CHOOSE i \in lo..(hi + 1) :
        /\ i <= hi => add_member(handles, create_handle(k, text, i)).ret
        /\ \A j \in lo..(i - 1) : ~add_member(handles, create_handle(k, text, j)).ret

\* create_member: the list after the call, whether ValueError was raised, the
\* handle returned, and the number of candidates created (create_handle calls).
create_member(handles, k, text) ==
    LET i == first_accepted(handles, k, text, 0, MAX_SALT) IN
    IF i > MAX_SALT
    THEN [handles |-> handles, raised |-> TRUE, handle |-> None, tried |-> i]
    ELSE [handles |-> add_member(handles, create_handle(k, text, i)).handles,
          raised |-> FALSE, handle |-> create_handle(k, text, i), tried |-> i + 1]

(***************************************************************************)
(* The novel model (mm2nw.py 262-760) and MmFile (mm2yw7lib/mm_file.py)    *)
(*                                                                         *)
(* An XML element of the mindmap is a record                               *)
(*   [TEXT, icon, richcontent, node]:                                      *)
(* the TEXT attribute (or None), the BUILTIN attributes of its icon        *)
(* children, its richcontent children [TYPE, itertext] (itertext: the text *)
(* fragments of the element) and its node children, each in document order.*)
(***************************************************************************)

EmptyDict == [x \in {} |-> None]

\* d[k] = v of a Python dict.
SetItem(d, k, v) == [x \in DOMAIN d \cup {k} |-> IF x = k THEN v ELSE d[x]]

\* Chapter(), Scene(), Character(), WorldElement() as the constructors leave them.
\* None in a field that holds a number is NoneInt, a number no field holds;
\* isMajor = None is falsy.
NoneInt == 0 - 1000

Chapter ==
    [title |-> None, desc |-> None, chLevel |-> NoneInt, chType |-> NoneInt, srtScenes |-> <<>>]

Scene == [title |-> None, desc |-> None, status |-> NoneInt, scType |-> NoneInt]

Character == [title |-> None, desc |-> None, fullName |-> None, isMajor |-> FALSE]

WorldElement == [title |-> None, desc |-> None]

Novel ==
    [title |-> None, desc |-> None, authorName |-> None,
     chapters |-> EmptyDict, scenes |-> EmptyDict, srtChapters |-> <<>>,
     characters |-> EmptyDict, srtCharacters |-> <<>>,
     locations |-> EmptyDict, srtLocations |-> <<>>,
     items |-> EmptyDict, srtItems |-> <<>>]

\* create_id: str(i) for the least i >= 1 with str(i) not in elements.
RECURSIVE create_id_from(_, _)
create_id_from(elements, i) ==
    IF ToString(i) \in elements THEN create_id_from(elements, i + 1) ELSE ToString(i)

\* A create_id that begins its search at 2.
create_id_from_two(elements) == create_id_from(elements, 2)

create_id(elements) == create_id_from(elements, 1)

\* ''.join(fragments).strip(): fragments are whole words or the blank " ".
RECURSIVE lstrip(_)
lstrip(fragments) ==
    IF fragments # <<>> /\ Head(fragments) = " " THEN lstrip(Tail(fragments)) ELSE fragments

RECURSIVE rstrip(_)
rstrip(fragments) ==
    IF fragments # <<>> /\ fragments[Len(fragments)] = " "
    THEN rstrip(SubSeq(fragments, 1, Len(fragments) - 1))
    ELSE fragments

RECURSIVE join(_)
join(fragments) == IF fragments = <<>> THEN "" ELSE Head(fragments) \o join(Tail(fragments))

join_strip(fragments) == join(rstrip(lstrip(fragments)))

\* The text of the first richcontent child of the given TYPE, or None.
RECURSIVE rich_text(_, _)
rich_text(richcontent, type) ==
    IF richcontent = <<>> THEN None
    ELSE IF Head(richcontent).TYPE = type THEN join_strip(Head(richcontent).itertext)
    ELSE rich_text(Tail(richcontent), type)

_get_title(xmlNode) ==
    IF xmlNode.TEXT # None THEN xmlNode.TEXT ELSE rich_text(xmlNode.richcontent, "NODE")

_get_desc(xmlNode) == rich_text(xmlNode.richcontent, "NOTE")

\* _get_type: the first icon that is the notes icon (1) or the todo icon (2).
RECURSIVE get_type_loop(_, _)
get_type_loop(kw, icons) ==
    IF icons = <<>> THEN 0
    ELSE IF Head(icons) = kw.notes_icon THEN 1
    ELSE IF Head(icons) = kw.todo_icon THEN 2
    ELSE get_type_loop(kw, Tail(icons))

_get_type(kw, xmlNode) == get_type_loop(kw, xmlNode.icon)

\* The icon loop of read: the first icon that is one of the four group icons
\* sets the one flag and ends the loop.
RECURSIVE group_loop(_, _)
group_loop(kw, icons) ==
    IF icons = <<>> THEN "none"
    ELSE IF Head(icons) = kw.main_characters_icon THEN "isMainCharactersNode"
    ELSE IF Head(icons) = kw.minor_characters_icon THEN "isMinorCharactersNode"
    ELSE IF Head(icons) = kw.locations_icon THEN "isLocationsNode"
    ELSE IF Head(icons) = kw.items_icon THEN "isItemsNode"
    ELSE group_loop(kw, Tail(icons))

RECURSIVE _get_characters_loop(_, _, _)
_get_characters_loop(nv, xmlCharacters, isMajor) ==
    IF xmlCharacters = <<>> THEN nv
    ELSE LET crId == create_id(DOMAIN nv.characters)
             cr == [Character EXCEPT !.title = _get_title(Head(xmlCharacters)),
                                     !.desc = _get_desc(Head(xmlCharacters)),
                                     !.isMajor = isMajor]
         IN _get_characters_loop(
                [nv EXCEPT !.characters = SetItem(@, crId, cr),
                           !.srtCharacters = Append(@, crId)],
                Tail(xmlCharacters), isMajor)

_get_characters(nv, xmlNode, isMajor) == _get_characters_loop(nv, xmlNode.node, isMajor)

RECURSIVE _get_locations_loop(_, _)
_get_locations_loop(nv, xmlLocations) ==
    IF xmlLocations = <<>> THEN nv
    ELSE LET lcId == create_id(DOMAIN nv.locations)
             lc == [WorldElement EXCEPT !.title = _get_title(Head(xmlLocations)),
                                        !.desc = _get_desc(Head(xmlLocations))]
         IN _get_locations_loop(
                [nv EXCEPT !.locations = SetItem(@, lcId, lc),
                           !.srtLocations = Append(@, lcId)],
                Tail(xmlLocations))

_get_locations(nv, xmlNode) == _get_locations_loop(nv, xmlNode.node)

RECURSIVE _get_items_loop(_, _)
_get_items_loop(nv, xmlItems) ==
    IF xmlItems = <<>> THEN nv
    ELSE LET itId == create_id(DOMAIN nv.items)
             it == [WorldElement EXCEPT !.title = _get_title(Head(xmlItems)),
                                        !.desc = _get_desc(Head(xmlItems))]
         IN _get_items_loop(
                [nv EXCEPT !.items = SetItem(@, itId, it),
                           !.srtItems = Append(@, itId)],
                Tail(xmlItems))

_get_items(nv, xmlNode) == _get_items_loop(nv, xmlNode.node)

\* A scene loop in which all chapters share one scene list.
RECURSIVE scene_loop_shared(_, _, _, _)
scene_loop_shared(nv, kw, chId, xmlScenes) ==
    IF xmlScenes = <<>> THEN nv
    ELSE LET scId == create_id(DOMAIN nv.scenes)
             sc == [Scene EXCEPT !.title = _get_title(Head(xmlScenes)),
                                 !.desc = _get_desc(Head(xmlScenes)),
                                 !.status = 1,
                                 !.scType = _get_type(kw, Head(xmlScenes))]
         IN scene_loop_shared(
                [nv EXCEPT !.scenes = SetItem(@, scId, sc),
                           !.chapters = [c \in DOMAIN @ |->
                               [@[c] EXCEPT !.srtScenes =
                                   IF @ # <<>> \/ c = chId THEN Append(@, scId) ELSE @]]],
                kw, chId, Tail(xmlScenes))

\* The scene loop of _get_part (mm_file.py 167-177) for chapter chId.
RECURSIVE scene_loop(_, _, _, _)
scene_loop(nv, kw, chId, xmlScenes) ==
    IF xmlScenes = <<>> THEN nv
    ELSE LET scId == create_id(DOMAIN nv.scenes)
             sc == [Scene EXCEPT !.title = _get_title(Head(xmlScenes)),
                                 !.desc = _get_desc(Head(xmlScenes)),
                                 !.status = 1,
                                 !.scType = IF nv.chapters[chId].chType # 0
                                            THEN nv.chapters[chId].chType
                                            ELSE _get_type(kw, Head(xmlScenes))]
         IN scene_loop(
                [nv EXCEPT !.scenes = SetItem(@, scId, sc),
                           !.chapters[chId].srtScenes = Append(@, scId)],
                kw, chId, Tail(xmlScenes))

\* A chapter loop that takes every chapter's type from the chapter's own icons.
RECURSIVE chapter_loop_own(_, _, _, _)
chapter_loop_own(nv, kw, partType, xmlChapters) ==
    IF xmlChapters = <<>> THEN nv
    ELSE LET xmlChapter == Head(xmlChapters)
             chId == create_id(DOMAIN nv.chapters)
             ch == [Chapter EXCEPT !.chLevel = 0,
                                   !.title = _get_title(xmlChapter),
                                   !.desc = _get_desc(xmlChapter),
                                   !.chType = _get_type(kw, xmlChapter)]
             nv1 == [nv EXCEPT !.chapters = SetItem(@, chId, ch),
                               !.srtChapters = Append(@, chId)]
         IN chapter_loop_own(scene_loop(nv1, kw, chId, xmlChapter.node),
                             kw, partType, Tail(xmlChapters))

\* The chapter loop of _get_part (mm_file.py 156-177).
RECURSIVE chapter_loop(_, _, _, _)
chapter_loop(nv, kw, partType, xmlChapters) ==
    IF xmlChapters = <<>> THEN nv
    ELSE LET xmlChapter == Head(xmlChapters)
             chId == create_id(DOMAIN nv.chapters)
             ch == [Chapter EXCEPT !.chLevel = 0,
                                   !.title = _get_title(xmlChapter),
                                   !.desc = _get_desc(xmlChapter),
                                   !.chType = IF partType = 0
                                              THEN _get_type(kw, xmlChapter)
                                              ELSE partType]
             nv1 == [nv EXCEPT !.chapters = SetItem(@, chId, ch),
                               !.srtChapters = Append(@, chId)]
         IN chapter_loop(scene_loop(nv1, kw, chId, xmlChapter.node),
                         kw, partType, Tail(xmlChapters))

\* A _get_part that makes a part entry for every part node.
_get_part_always(nv, kw, xmlNode) ==
    LET partType == _get_type(kw, xmlNode)
        paId == create_id(DOMAIN nv.chapters)
        pa == [Chapter EXCEPT !.chLevel = 1,
                              !.title = _get_title(xmlNode),
                              !.desc = _get_desc(xmlNode),
                              !.chType = partType]
    IN chapter_loop([nv EXCEPT !.chapters = SetItem(@, paId, pa),
                               !.srtChapters = Append(@, paId)],
                    kw, partType, xmlNode.node)

_get_part(nv, kw, xmlNode) ==
    LET partType == _get_type(kw, xmlNode) IN
    IF kw.has_normal_parts \/ partType # 0
    THEN LET paId == create_id(DOMAIN nv.chapters)
             pa == [Chapter EXCEPT !.chLevel = 1,
                                   !.title = _get_title(xmlNode),
                                   !.desc = _get_desc(xmlNode),
                                   !.chType = partType]
         IN chapter_loop([nv EXCEPT !.chapters = SetItem(@, paId, pa),
                                    !.srtChapters = Append(@, paId)],
                         kw, partType, xmlNode.node)
    ELSE chapter_loop(nv, kw, 0, xmlNode.node)

\* A pass of the loop in which a group node whose export is off is read as a
\* part.
read_node_export_or_part(nv, kw, xmlNode) ==
    LET group == group_loop(kw, xmlNode.icon) IN
    IF group = "isMainCharactersNode" /\ kw.export_characters
    THEN _get_characters(nv, xmlNode, TRUE)
    ELSE IF group = "isMinorCharactersNode" /\ kw.export_characters
    THEN _get_characters(nv, xmlNode, FALSE)
    ELSE IF group = "isLocationsNode" /\ kw.export_locations
    THEN _get_locations(nv, xmlNode)
    ELSE IF group = "isItemsNode" /\ kw.export_items
    THEN _get_items(nv, xmlNode)
    ELSE IF kw.export_scenes THEN _get_part(nv, kw, xmlNode)
    ELSE nv

\* One pass of the loop over the children of the root node (mm_file.py 70-105).
read_node(nv, kw, xmlNode) ==
    LET group == group_loop(kw, xmlNode.icon) IN
    IF group = "isMainCharactersNode"
    THEN IF kw.export_characters THEN _get_characters(nv, xmlNode, TRUE) ELSE nv
    ELSE IF group = "isMinorCharactersNode"
    THEN IF kw.export_characters THEN _get_characters(nv, xmlNode, FALSE) ELSE nv
    ELSE IF group = "isLocationsNode"
    THEN IF kw.export_locations THEN _get_locations(nv, xmlNode) ELSE nv
    ELSE IF group = "isItemsNode"
    THEN IF kw.export_items THEN _get_items(nv, xmlNode) ELSE nv
    ELSE IF kw.export_scenes THEN _get_part(nv, kw, xmlNode)
    ELSE nv

\* MmFile.read as a whole: the novel after it and what it returned or raised.
RECURSIVE read_loop(_, _, _)
read_loop(nv, kw, xmlNodes) ==
    IF xmlNodes = <<>> THEN nv
    ELSE read_loop(read_node(nv, kw, Head(xmlNodes)), kw, Tail(xmlNodes))

CanNotProcess == "!Can not process"

MmFile_read(file, kw, nv) ==
    IF ~file.wellformed
    THEN [novel |-> nv, raised |-> FALSE, ret |-> CanNotProcess]
    ELSE IF file.node = <<>>
    THEN [novel |-> nv, raised |-> TRUE, ret |-> "AttributeError"]
    ELSE LET xmlNovel == Head(file.node) IN
         [novel |-> read_loop([nv EXCEPT !.title = _get_title(xmlNovel),
                                         !.desc = _get_desc(xmlNovel)],
                              kw, xmlNovel.node),
          raised |-> FALSE, ret |-> None]

(***************************************************************************)
(* The items NwxFile.write (mm2nw.py 2292-2680) creates, NwItemV15.write   *)
(* (1300-1341) and the content files (NwdFile, 1344-2085)                  *)
(*                                                                         *)
(* The project tree is the sequence of the item elements written, a        *)
(* content file is the record of its three header lines and of the lines   *)
(* that follow them.  An exception is the name of its class in the field   *)
(* raised of the value an operator returns.                                *)
(***************************************************************************)

\* f'{x}' and str(x) of a string or None.
Str(x) == IF x = None THEN "None" ELSE x

\* if x: for a string or None.
Truthy(x) == x # None /\ x # ""

\* s.replace(old, new) for a single character old.
RECURSIVE replace(_, _, _)
replace(s, old, new) ==
    IF s = "" THEN ""
    ELSE (IF SubSeq(s, 1, 1) = old THEN new ELSE SubSeq(s, 1, 1))
         \o replace(SubSeq(s, 2, Len(s)), old, new)

STATUS_IDS ==
    [x \in {"None", "Outline", "Draft", "1st Edit", "2nd Edit", "Done"} |->
        CASE x = "None" -> "s000001"
          [] x = "Outline" -> "s000002"
          [] x = "Draft" -> "s000003"
          [] x = "1st Edit" -> "s000004"
          [] x = "2nd Edit" -> "s000005"
          [] OTHER -> "s000006"]

IMPORTANCE_IDS ==
    [x \in {"None", "Minor", "Major"} |->
        CASE x = "None" -> "i000001"
          [] x = "Minor" -> "i000002"
          [] OTHER -> "i000003"]

\* The string 'None' where a handle is expected (the parent of a root folder).
NoParent == <<"N", "o", "n", "e">>

\* NwItem(): nwActive is None, "True" or "False"; the handles are set before
\* the item is written.
NwItem ==
    [nwName |-> None, nwType |-> None, nwClass |-> None, nwStatus |-> None,
     nwImportance |-> None, nwActive |-> None, nwLayout |-> None,
     nwHandle |-> <<>>, nwOrder |-> 0, nwParent |-> <<>>]

\* The item element NwItemV15.write appends to the content element.
NwItemV15_write(nwItem) ==
    [handle |-> nwItem.nwHandle,
     parent |-> nwItem.nwParent,
     order |-> ToString(nwItem.nwOrder),
     name |-> nwItem.nwName,
     status |-> IF nwItem.nwStatus # None THEN STATUS_IDS[nwItem.nwStatus] ELSE None,
     import |-> IF nwItem.nwImportance # None
                THEN IMPORTANCE_IDS[nwItem.nwImportance] ELSE None,
     active |-> IF nwItem.nwActive = None THEN None
                ELSE IF nwItem.nwActive = "True" THEN "yes" ELSE "no",
     type |-> nwItem.nwType,
     class |-> nwItem.nwClass,
     layout |-> nwItem.nwLayout]

\* The text NwdFile.write writes: the three header lines and the lines added.
NwdFile_write(nwItem, lines) ==
    [name |-> Str(nwItem.nwName),
     path |-> <<nwItem.nwParent, nwItem.nwHandle>>,
     kind |-> <<Str(nwItem.nwClass), Str(nwItem.nwLayout)>>,
     lines |-> lines]

\* What add_chapter, add_scene, add_character and add_element do to a content
\* file: the lines they add, the exception they raise, and how often the file
\* is written by them and by the write() that follows them.
NoDoc == [raised |-> None, writes |-> 0, lines |-> <<>>]

add_chapter(nv, chId) ==
    LET chapter == nv.chapters[chId] IN
    [raised |-> None, writes |-> 1,
     lines |-> <<(IF chapter.chLevel = 0 THEN "## " ELSE "# ") \o Str(chapter.title) \o "\n">>
               \o (IF Truthy(chapter.desc)
                   THEN <<"\n% synopsis: " \o replace(chapter.desc, "\n", "\t") \o "\n">>
                   ELSE <<>>)]

\* appendToPrev, characters, locations, items, tags and sceneContent are None
\* in every scene MmFile creates.
add_scene(nv, scId) ==
    LET scene == nv.scenes[scId] IN
    [raised |-> None, writes |-> 1,
     lines |-> <<"### " \o Str(scene.title) \o "\n">>
               \o (IF Truthy(scene.desc)
                   THEN <<"\n% synopsis: " \o replace(scene.desc, "\n", "\t")>>
                   ELSE <<>>)
               \o <<"\n">>]

\* aka, tags, bio, goals and notes are None in every character MmFile creates.
add_character(nv, crId) ==
    LET character == nv.characters[crId]
        title == IF Truthy(character.fullName) THEN character.fullName ELSE character.title
    IN IF character.title = None
       THEN [raised |-> "AttributeError", writes |-> 0, lines |-> <<"# " \o Str(title) \o "\n">>]
       ELSE [raised |-> None, writes |-> 1,
             lines |-> <<"# " \o Str(title) \o "\n",
                         "@tag: " \o replace(character.title, " ", "_")>>
                       \o (IF Truthy(character.desc) THEN <<"\n" \o character.desc>> ELSE <<>>)]

\* An add_element after which no file is written.
add_element_unwritten(element) == [raised |-> None, writes |-> 0, lines |-> <<>>]

\* NwdWorldFile.add_element and NwdObjectFile.add_element end with
\* super().write(): the file is written twice.
add_element(element) ==
    IF element.title = None
    THEN [raised |-> "AttributeError", writes |-> 0,
          lines |-> <<"# " \o Str(element.title) \o "\n">>]
    ELSE [raised |-> None, writes |-> 2,
          lines |-> <<"# " \o Str(element.title) \o "\n",
                      "@tag: " \o replace(element.title, " ", "_")>>
                    \o (IF Truthy(element.desc) THEN <<"\n" \o element.desc>> ELSE <<>>)]

\* The local variables of write: phase, i and j are the position in it (the
\* statement group, the index into the list looped over, the index into
\* srtScenes), handle is the handle the latest create_member returned.
WriteIdle ==
    [phase |-> "idle", i |-> 0, j |-> 0, content |-> <<>>, order |-> <<>>,
     attrCount |-> 0, hasPartLevel |-> FALSE, isInChapter |-> FALSE,
     novelFolderHandle |-> <<>>, partFolderHandle |-> <<>>, chapterFolderHandle |-> <<>>,
     folderHandle |-> <<>>, handle |-> <<>>]

\* order[-1], order.append(0), order.pop(), order[-1] += 1.
Top(order) == order[Len(order)]

Push(order) == Append(order, 0)

Pop(order) == SubSeq(order, 1, Len(order) - 1)

Incr(order) == [order EXCEPT ![Len(order)] = @ + 1]

\* A file written n times (n <= 2).
Times(file, n) == IF n = 0 THEN <<>> ELSE IF n = 1 THEN <<file>> ELSE <<file, file>>

\* What write does for every item once create_member has returned r:
\* item.write(content), the content file (doc), attrCount += 1, order[-1] += 1.
put_item(wl, r, item, doc) ==
    LET nwItem == [item EXCEPT !.nwHandle = r.handle] IN
    IF r.raised
    THEN [w |-> wl, nwHandles |-> r.handles, files |-> <<>>, raised |-> "ValueError"]
    ELSE IF doc.raised # None
    THEN [w |-> [wl EXCEPT !.content = Append(@, NwItemV15_write(nwItem)),
                           !.handle = r.handle],
          nwHandles |-> r.handles, files |-> <<>>, raised |-> doc.raised]
    ELSE [w |-> [wl EXCEPT !.content = Append(@, NwItemV15_write(nwItem)),
                           !.handle = r.handle,
                           !.attrCount = @ + 1,
                           !.order = Incr(@)],
          nwHandles |-> r.handles,
          files |-> Times(NwdFile_write(nwItem, doc.lines), doc.writes),
          raised |-> None]

\* A root folder (2351-2363, 2519-2533, 2573-2587, 2623-2637).
root_folder(order, name, class, status) ==
    [NwItem EXCEPT !.nwOrder = Top(order), !.nwParent = NoParent,
                   !.nwName = name, !.nwType = "ROOT", !.nwClass = class,
                   !.nwStatus = status, !.nwImportance = status]

\* The layout and the active flag of a heading or a scene of the given type.
Layout(type) == IF type \in {1, 2} THEN "NOTE" ELSE "DOCUMENT"

Active(type) == IF type = 3 THEN "False" ELSE "True"

\* The folder of a part (2377-2386) and of a chapter (2427-2438).
partFolder(wl, chapter) ==
    [NwItem EXCEPT !.nwOrder = Top(wl.order),
                   !.nwParent = wl.novelFolderHandle,
                   !.nwName = chapter.title,
                   !.nwType = "FOLDER",
                   !.nwClass = "NOVEL"]

chapterFolder(wl, chapter) ==
    [NwItem EXCEPT !.nwOrder = Top(wl.order),
                   !.nwParent = IF wl.hasPartLevel THEN wl.partFolderHandle
                                ELSE wl.novelFolderHandle,
                   !.nwName = chapter.title,
                   !.nwType = "FOLDER"]

\* The heading of a part (2394-2410) and of a chapter (2446-2462).
heading(wl, chapter, folderHandle) ==
    [NwItem EXCEPT !.nwOrder = Top(wl.order),
                   !.nwParent = folderHandle,
                   !.nwName = chapter.title,
                   !.nwType = "FILE",
                   !.nwClass = "NOVEL",
                   !.nwLayout = Layout(chapter.chType),
                   !.nwActive = Active(chapter.chType),
                   !.nwStatus = "None",
                   !.nwImportance = "None"]

\* A selection that takes the first element where the index is out of range.
sceneStatus_first(sceneStatus, status) ==
    IF status >= 0 /\ status < Len(sceneStatus) THEN sceneStatus[status + 1]
    ELSE sceneStatus[1]

\* self._sceneStatus[status], and self._sceneStatus[-1] on IndexError
\* (2489-2493): an index from -len to -1 counts from the end of the tuple.
sceneStatus_at(sceneStatus, status) ==
    IF status >= 0 /\ status < Len(sceneStatus) THEN sceneStatus[status + 1]
    ELSE IF status < 0 /\ status >= 0 - Len(sceneStatus)
    THEN sceneStatus[Len(sceneStatus) + status + 1]
    ELSE sceneStatus[Len(sceneStatus)]

\* A scene whose parent is the part folder, whatever folder it is in.
scene_item_in_part(wl, scene, sceneStatus) ==
    [NwItem EXCEPT
        !.nwOrder = Top(wl.order),
        !.nwParent = wl.partFolderHandle,
        !.nwName = IF Truthy(scene.title) THEN scene.title
                   ELSE "Scene " \o ToString(Top(wl.order) + 1),
        !.nwType = "FILE",
        !.nwClass = "NOVEL",
        !.nwStatus = IF scene.status # NoneInt
                     THEN sceneStatus_at(sceneStatus, scene.status)
                     ELSE None,
        !.nwImportance = "None",
        !.nwLayout = Layout(scene.scType),
        !.nwActive = Active(scene.scType)]

\* A scene (2474-2504).
scene_item(wl, scene, sceneStatus) ==
    [NwItem EXCEPT
        !.nwOrder = Top(wl.order),
        !.nwParent = IF wl.isInChapter THEN wl.chapterFolderHandle ELSE wl.partFolderHandle,
        !.nwName = IF Truthy(scene.title) THEN scene.title
                   ELSE "Scene " \o ToString(Top(wl.order) + 1),
        !.nwType = "FILE",
        !.nwClass = "NOVEL",
        !.nwStatus = IF scene.status # NoneInt
                     THEN sceneStatus_at(sceneStatus, scene.status)
                     ELSE None,
        !.nwImportance = "None",
        !.nwLayout = Layout(scene.scType),
        !.nwActive = Active(scene.scType)]

\* A character (2540-2559).
character_item(wl, cr) ==
    [NwItem EXCEPT !.nwOrder = Top(wl.order),
                   !.nwParent = wl.folderHandle,
                   !.nwName = IF Truthy(cr.fullName) THEN cr.fullName
                              ELSE IF Truthy(cr.title) THEN cr.title
                              ELSE "Character " \o ToString(Top(wl.order) + 1),
                   !.nwType = "FILE",
                   !.nwClass = "CHARACTER",
                   !.nwStatus = "None",
                   !.nwImportance = IF cr.isMajor THEN "Major" ELSE "Minor",
                   !.nwActive = "True",
                   !.nwLayout = "NOTE"]

\* A location (2595-2610) or an item (2645-2660).
element_item(wl, el, class, prefix) ==
    [NwItem EXCEPT !.nwOrder = Top(wl.order),
                   !.nwParent = wl.folderHandle,
                   !.nwName = IF Truthy(el.title) THEN el.title
                              ELSE prefix \o ToString(Top(wl.order) + 1),
                   !.nwType = "FILE",
                   !.nwClass = class,
                   !.nwActive = "True",
                   !.nwLayout = "NOTE",
                   !.nwStatus = "None",
                   !.nwImportance = "None"]

\* The project file written at the end (2310-2320, 2673-2679).
nwx_file(wl, nv) ==
    [title |-> IF Truthy(nv.title) THEN nv.title ELSE "New project",
     count |-> ToString(wl.attrCount),
     content |-> wl.content]

(***************************************************************************)
(* Settings (mm2nw_.py 17-44) and the mindmaps read                        *)
(***************************************************************************)

KW(normalParts, scenes, characters, locations, items) ==
    [locations_icon |-> "gohome", items_icon |-> "password",
     main_characters_icon |-> "full-1", minor_characters_icon |-> "full-2",
     notes_icon |-> "info", todo_icon |-> "list",
     export_scenes |-> scenes, export_characters |-> characters,
     export_locations |-> locations, export_items |-> items,
     has_normal_parts |-> normalParts,
     scene_status |-> <<"None", "Outline", "Draft", "1st Edit", "2nd Edit", "Done">>]

Element(text, icons, rich, nodes) ==
    [TEXT |-> text, icon |-> icons, richcontent |-> rich, node |-> nodes]

Note(k) == <<[TYPE |-> "NOTE", itertext |-> <<" ", "Note", ToString(k), " ">>]>>

\* Bounds: top-level nodes of a mindmap, child nodes of a top-level node,
\* scene nodes of a chapter node.
MaxTop == 2

MaxKids == 2

MaxScenes == 2

IconByPosition == <<<<>>, <<"info">>, <<"list">>>>

\* The k-th scene node of a chapter node: every second one has its title as
\* rich text, the odd ones carry a note, the icons go round.
SceneNode(i, j, k) ==
    Element(IF k % 2 = 0 THEN None ELSE "S" \o ToString(i) \o ToString(j) \o ToString(k),
            IconByPosition[((k + 1) % 3) + 1],
            (IF k % 2 = 0
             THEN <<[TYPE |-> "NODE",
                     itertext |-> <<" ", "S", ToString(i), ToString(j), ToString(k), " ">>]>>
             ELSE <<>>) \o (IF k % 2 = 1 THEN Note(k) ELSE <<>>),
            <<>>)

\* The j-th child of the i-th top-level node, with m scene nodes.
ChildNode(i, j, m) ==
    Element("C" \o ToString(i) \o ToString(j), IconByPosition[((j - 1) % 3) + 1],
            IF j % 2 = 0 THEN Note(j) ELSE <<>>,
            [k \in 1..m |-> SceneNode(i, j, k)])

\* The i-th top-level node: its icons, n children, m scene nodes per child.
TopNode(i, icons, n, m) ==
    Element("T" \o ToString(i), icons, <<>>, [j \in 1..n |-> ChildNode(i, j, m)])

MindMap(tops, m) ==
    [wellformed |-> TRUE,
     node |-> <<Element("Demo", <<>>, <<>>,
                        [i \in DOMAIN tops |-> TopNode(i, tops[i].icons, tops[i].n, m)])>>]

\* A file that is not XML; an XML file whose root has no node child.
Garbage == [wellformed |-> FALSE, node |-> <<>>]

NoRootNode == [wellformed |-> TRUE, node |-> <<>>]

\* Part nodes without icon, with the notes icon, with the todo icon, two
\* group nodes between them, and group nodes with several icons.
ReadTops ==
    [icons : {<<>>, <<"info">>, <<"list">>}, n : 0..MaxKids]
    \cup [icons : {<<"gohome">>, <<"full-1">>}, n : {1}]
    \cup [icons : {<<"gohome", "full-1">>, <<"full-1", "gohome">>,
                   <<"info", "password", "full-2">>}, n : {1}]

ReadMindMaps ==
    {Garbage, NoRootNode}
    \cup {MindMap(tops, m) : tops \in UNION {[1..n -> ReadTops] : n \in 0..MaxTop},
                             m \in 0..MaxScenes}

ReadKwargs == {KW(TRUE, TRUE, TRUE, TRUE, TRUE), KW(FALSE, TRUE, TRUE, TRUE, TRUE),
               KW(TRUE, FALSE, TRUE, TRUE, TRUE), KW(TRUE, TRUE, FALSE, FALSE, FALSE),
               KW(TRUE, TRUE, TRUE, FALSE, TRUE)}

(***************************************************************************)
(* The allocator as a state machine.  Allocator "A" is fed any calls of    *)
(* create_member and add_member (add_member is what NwxFile.read calls for *)
(* every handle of a project file); allocator "B" is a second, fresh       *)
(* Handles object that is fed the calls of "A" again, in the same order.   *)
(***************************************************************************)

Allocs == {"A", "B"}

\* Bound: the number of calls made on one allocator.
MaxCalls == 2

HSeeds == {"novelFolderHandle", "1aFolder", "1a"}

Beh(c, b) == [cls |-> c, bad |-> b]

HKdf(c1, c2, b2) ==
    [t \in HSeeds |-> CASE t = "novelFolderHandle" -> Beh(0, 0)
                        [] t = "1aFolder" -> Beh(c1, 0)
                        [] OTHER -> Beh(c2, b2)]

\* The key derivations tried: injective; two seeds with one key; two keys
\* with one handle; candidates of 12 characters for the first two salts.
HKdfs == {HKdf(1, 2, 0), HKdf(1, 1, 0), HKdf(1, 5, 0), HKdf(1, 2, 2)}

\* Handles a project file may carry: candidates of a seed, a handle of 12
\* characters, a handle with a character outside the alphabet.
FileHandles(k) ==
    {create_handle(k, "1a", 0), create_handle(k, "1a", 1),
     <<"a", "b", "c", "d", "e", "f", "0", "1", "2", "3", "4", "5">>,
     <<"a", "b", "c", "d", "e", "f", "0", "1", "2", "3", "4", "5", "g">>}

NoCall == [alloc |-> None, op |-> None, before |-> <<>>]

NoResult == [raised |-> FALSE, ret |-> "pending"]

\* A NwdNovelFile that has converted nothing.
MarkupIdle == [pc |-> "idle", doubleLinebreaks |-> FALSE, yw |-> "", md |-> "", back |-> ""]

\* NwxFile.__init__ (mm2nw.py 2176-2187): the project tree is not yet read
\* (_tree = None is <<>>), the counters are zero and the lookups are empty; file
\* is what is found at filePath, novel is the Novel() the caller sets.
NwxIdle ==
    [pc |-> "idle", file |-> <<>>, tree |-> <<>>, novel |-> Novel, pos |-> 0, lcCount |-> 0,
     crCount |-> 0, itCount |-> 0, scCount |-> 0, chCount |-> 0, chId |-> None,
     statusLookup |-> EmptyDict, importanceLookup |-> EmptyDict, raised |-> None,
     ret |-> None]

\* The parts of the state a specification does not use.
RIdle ==
    /\ mm = Garbage
    /\ kwargs = KW(TRUE, TRUE, TRUE, TRUE, TRUE)
    /\ novel = Novel
    /\ rpc = "start"
    /\ rpos = 0
    /\ rres = NoResult

CIdle ==
    /\ sourcePath = [name |-> "Demo", ext |-> ".mm", isfile |-> FALSE]
    /\ dirs = EmptyDict
    /\ dirs0 = EmptyDict
    /\ cwdLock = FALSE
    /\ ui = [class |-> "Ui", answer |-> TRUE]
    /\ uiLog = <<>>
    /\ ioLog = <<>>
    /\ newFile = None
    /\ exc = None
    /\ pc = "idle"
    /\ runs = 0
    /\ outcomes = <<>>
    /\ w = WriteIdle

LIdle ==
    /\ markup = MarkupIdle
    /\ reader = NwxIdle

HIdle ==
    /\ nwHandles = [a \in Allocs |-> <<>>]
    /\ kdf = HKdf(1, 2, 0)
    /\ calls = [a \in Allocs |-> <<>>]
    /\ lastCall = NoCall

HInit ==
    /\ RIdle
    /\ CIdle
    /\ LIdle
    /\ nwHandles = [a \in Allocs |-> <<>>]
    /\ kdf \in HKdfs
    /\ calls = [a \in Allocs |-> <<>>]
    /\ lastCall = NoCall

CreateMember(a, text, max) ==
    /\ Len(calls[a]) < max
    /\ LET r == create_member(nwHandles[a], kdf, text) IN
       /\ nwHandles' = [nwHandles EXCEPT ![a] = r.handles]
       /\ calls' = [calls EXCEPT ![a] = Append(@,
               [op |-> "create_member", arg |-> text, raised |-> r.raised,
                ret |-> r.handle, tried |-> r.tried])]
       /\ lastCall' = [alloc |-> a, op |-> "create_member", before |-> nwHandles[a]]
    /\ UNCHANGED <<kdf, rvars, cvars, lvars>>

AddMember(a, handle, max) ==
    /\ Len(calls[a]) < max
    /\ LET r == add_member(nwHandles[a], handle) IN
       /\ nwHandles' = [nwHandles EXCEPT ![a] = r.handles]
       /\ calls' = [calls EXCEPT ![a] = Append(@,
               [op |-> "add_member", arg |-> handle, raised |-> FALSE,
                ret |-> r.ret, tried |-> 0])]
       /\ lastCall' = [alloc |-> a, op |-> "add_member", before |-> nwHandles[a]]
    /\ UNCHANGED <<kdf, rvars, cvars, lvars>>

\* The next call of "A" is made on "B".
Replay ==
    /\ Len(calls["B"]) < Len(calls["A"])
    /\ LET c == calls["A"][Len(calls["B"]) + 1] IN
       IF c.op = "create_member"
       THEN CreateMember("B", c.arg, MaxCalls)
       ELSE AddMember("B", c.arg, MaxCalls)

HNext ==
    \/ \E text \in HSeeds : CreateMember("A", text, MaxCalls)
    \/ \E handle \in FileHandles(kdf) : AddMember("A", handle, MaxCalls)
    \/ Replay

SpecHandles == HInit /\ [][HNext]_vars

(***************************************************************************)
(* The allocator with a seed whose candidates are rejected up to the last  *)
(* salt, or for every salt.                                                *)
(***************************************************************************)

\* Bound: the number of calls made on the allocator.
MaxExhaustCalls == 2

XKdfs == {HKdf(1, 2, MAX_SALT - 1), HKdf(1, 2, MAX_SALT), HKdf(1, 2, MAX_SALT + 1)}

XInit ==
    /\ RIdle
    /\ CIdle
    /\ LIdle
    /\ nwHandles = [a \in Allocs |-> <<>>]
    /\ kdf \in XKdfs
    /\ calls = [a \in Allocs |-> <<>>]
    /\ lastCall = NoCall

XNext ==
    \/ \E text \in HSeeds : CreateMember("A", text, MaxExhaustCalls)
    \/ \E handle \in FileHandles(kdf) : AddMember("A", handle, MaxExhaustCalls)

SpecExhaust == XInit /\ [][XNext]_vars

(***************************************************************************)
(* MmFile.read as a state machine: one step per top-level node             *)
(***************************************************************************)

RInit ==
    /\ HIdle
    /\ CIdle
    /\ LIdle
    /\ mm \in ReadMindMaps
    /\ kwargs \in ReadKwargs
    /\ novel = Novel
    /\ rpc = "start"
    /\ rpos = 0
    /\ rres = NoResult

\* ET.parse, root.find('node'), title and description (mm_file.py 61-69).
ReadBegin ==
    /\ rpc = "start"
    /\ IF ~mm.wellformed
       THEN /\ rpc' = "done"
            /\ rres' = [raised |-> FALSE, ret |-> CanNotProcess]
            /\ UNCHANGED <<novel, rpos>>
       ELSE IF mm.node = <<>>
       THEN /\ rpc' = "done"
            /\ rres' = [raised |-> TRUE, ret |-> "AttributeError"]
            /\ UNCHANGED <<novel, rpos>>
       ELSE /\ novel' = [novel EXCEPT !.title = _get_title(Head(mm.node)),
                                      !.desc = _get_desc(Head(mm.node))]
            /\ rpc' = "loop"
            /\ rpos' = 1
            /\ UNCHANGED rres
    /\ UNCHANGED <<mm, kwargs, hvars, cvars, lvars>>

\* One top-level node (mm_file.py 70-105).
ReadTop ==
    /\ rpc = "loop"
    /\ rpos <= Len(Head(mm.node).node)
    /\ novel' = read_node(novel, kwargs, Head(mm.node).node[rpos])
    /\ rpos' = rpos + 1
    /\ UNCHANGED <<mm, kwargs, rpc, rres, hvars, cvars, lvars>>

\* The loop is left and read returns.
ReadEnd ==
    /\ rpc = "loop"
    /\ rpos > Len(Head(mm.node).node)
    /\ rpc' = "done"
    /\ rres' = [raised |-> FALSE, ret |-> None]
    /\ UNCHANGED <<mm, kwargs, novel, rpos, hvars, cvars, lvars>>

RNext == ReadBegin \/ ReadTop \/ ReadEnd

SpecRead == RInit /\ [][RNext]_vars

(***************************************************************************)
(* The file system and the user interface MmNwConverter.run acts on        *)
(*                                                                         *)
(* dirs maps the path of every directory beside the source file to what it *)
(* holds: whether it has a content/ subdirectory, its nwProject.nwx (a     *)
(* sequence of no or one file), the files of content/ by handle, and       *)
(* whether it holds nwProject.lock.                                        *)
(***************************************************************************)

Dir(content, nwx, docs, lock) == [content |-> content, nwx |-> nwx, docs |-> docs, lock |-> lock]

IO(op, path) == [op |-> op, path |-> path]

os_path_isdir(d, path) == path \in DOMAIN d

\* os.makedirs(f'{prjDir}/content/'): FileExistsError if content/ exists;
\* prjDir is created if it is missing.
os_makedirs(d, prjDir) ==
    IF os_path_isdir(d, prjDir) /\ d[prjDir].content
    THEN [dirs |-> d, raised |-> "FileExistsError"]
    ELSE IF os_path_isdir(d, prjDir)
    THEN [dirs |-> [d EXCEPT ![prjDir].content = TRUE], raised |-> None]
    ELSE [dirs |-> SetItem(d, prjDir, Dir(TRUE, <<>>, EmptyDict, FALSE)), raised |-> None]

\* os.replace(src, dst) of a directory: OSError if dst is a directory that is
\* not empty (every directory of dirs holds something).
os_replace(d, src, dst) ==
    IF os_path_isdir(d, dst)
    THEN [dirs |-> d, raised |-> "OSError"]
    ELSE [dirs |-> [p \in (DOMAIN d \ {src}) \cup {dst} |-> IF p = dst THEN d[src] ELSE d[p]],
          raised |-> None]

\* open(path, 'w') and write, for a content file and for nwProject.nwx.
RECURSIVE write_docs(_, _, _)
write_docs(d, prjDir, files) ==
    IF files = <<>> THEN d
    ELSE write_docs([d EXCEPT ![prjDir].docs = SetItem(@, Head(files).path[2], Head(files))],
                    prjDir, Tail(files))

write_nwx(d, prjDir, nwx) == [d EXCEPT ![prjDir].nwx = nwx]

\* str.strip() of blanks.
RECURSIVE strip(_)
strip(s) ==
    IF s = "" THEN s
    ELSE IF SubSeq(s, 1, 1) = " " THEN strip(SubSeq(s, 2, Len(s)))
    ELSE IF SubSeq(s, Len(s), Len(s)) = " " THEN strip(SubSeq(s, 1, Len(s) - 1))
    ELSE s

\* The message Ui.set_info_how and UiCmd.set_info_how keep and show.
set_info_how_raw(message) == message

set_info_how(message) ==
    IF Len(message) > 0 /\ SubSeq(message, 1, 1) = "!"
    THEN "FAIL: " \o strip(SubSeq(message, 2, Len(message)))
    ELSE message

\* Ui.ask_yes_no returns True; UiCmd.ask_yes_no returns what the user answers.
ask_yes_no(u) == IF u.class = "Ui" THEN TRUE ELSE u.answer

Log(op, text) == [op |-> op, text |-> text]

\* os.path.normpath of the paths used: a leading './' goes.
norm_path(path) ==
    IF Len(path) >= 2 /\ SubSeq(path, 1, 2) = "./" THEN SubSeq(path, 3, Len(path)) ELSE path

\* str(ex) of the exceptions raised.
str_ex(ex) ==
    CASE ex = "AttributeError" -> "'NoneType' object has no attribute"
      [] ex = "TypeError" -> "can only concatenate str (not \"NoneType\") to str"
      [] ex = "ValueError" -> "Unable to create a proper handle."
      [] OTHER -> ex

(***************************************************************************)
(* MmNwConverter.run (mm2nwlib/mm_nw_converter.py 22-83)                   *)
(***************************************************************************)

EXTENSION == ".mm"

CONTENT_DIR == "/content/"

\* Handles(): the list of a new allocator.
HandlesKept == nwHandles["A"]

Handles == <<>>

\* sourcePath has no directory part: srcDir is './' (lines 37-45).
SourceFile(sp) == sp.name \o sp.ext

PrjDir(sp) == "./" \o sp.name \o ".nw"

TargetFile(sp) == PrjDir(sp) \o "/nwProject.nwx"

\* f'{i:03}'
Format03(i) ==
    IF i < 10 THEN "00" \o ToString(i)
    ELSE IF i < 100 THEN "0" \o ToString(i)
    ELSE ToString(i)

\* The value of extension when the while condition is evaluated for the
\* (n+1)-th time: '.bak', then f'.bk{i:03}' for i = 0, 1, ...
extension_at(n) == IF n = 0 THEN ".bak" ELSE ".bk" \o Format03(n - 1)

\* The return is taken when i > 999 after the increment.
MAX_I == 999

\* The least n in lo..hi for which prjDir + extension_at(n) is no directory,
\* hi + 1 if there is none: the passes of the while loop, in their order.
first_free(d, prjDir, lo, hi) ==
    CHOOSE n \in lo..(hi + 1) :
        /\ n <= hi => ~os_path_isdir(d, prjDir \o extension_at(n))
        /\ \A m \in lo..(n - 1) : os_path_isdir(d, prjDir \o extension_at(m))

\* A rotation that looks at '.bak' only.
backup_loop_once(d, prjDir) ==
    [failed |-> FALSE,
     extension |-> IF os_path_isdir(d, prjDir \o ".bak") THEN ".bk000" ELSE ".bak"]

\* The while loop (lines 53-60).
backup_loop(d, prjDir) ==
    LET n == first_free(d, prjDir, 0, MAX_I) IN
    IF n > MAX_I
    THEN [failed |-> TRUE, extension |-> extension_at(n)]
    ELSE [failed |-> FALSE, extension |-> extension_at(n)]

\* A rotation that leaves the loop without returning.
backup_break(d, prjDir) ==
    LET l == backup_loop(d, prjDir)
        r == os_replace(d, prjDir, prjDir \o l.extension)
    IN [dirs |-> os_makedirs(r.dirs, prjDir).dirs, failed |-> l.failed, raised |-> r.raised,
        extension |-> l.extension,
        log |-> <<IO("replace", prjDir \o l.extension), IO("makedirs", prjDir \o CONTENT_DIR)>>]

\* The except clause (lines 53-64) but for the messages.
backup(d, prjDir) ==
    LET l == backup_loop(d, prjDir) IN
    IF l.failed
    THEN [dirs |-> d, failed |-> TRUE, raised |-> None, extension |-> l.extension, log |-> <<>>]
    ELSE LET r == os_replace(d, prjDir, prjDir \o l.extension) IN
         IF r.raised # None
         THEN [dirs |-> d, failed |-> FALSE, raised |-> r.raised, extension |-> l.extension,
               log |-> <<IO("replace", prjDir \o l.extension)>>]
         ELSE LET m == os_makedirs(r.dirs, prjDir) IN
              [dirs |-> m.dirs, failed |-> FALSE, raised |-> m.raised,
               extension |-> l.extension,
               log |-> <<IO("replace", prjDir \o l.extension),
                         IO("makedirs", prjDir \o CONTENT_DIR)>>]

\* What a finished run leaves behind.
Outcome(nf, d, prjDir) ==
    [newFile |-> nf,
     nwx |-> IF os_path_isdir(d, prjDir) THEN d[prjDir].nwx ELSE <<>>,
     docs |-> IF os_path_isdir(d, prjDir) THEN d[prjDir].docs ELSE EmptyDict]

\* self.ui.set_info_how(message) as the last statement of run.
Finish(log, message, nf, d) ==
    /\ uiLog' = Append(log, Log("set_info_how", set_info_how(message)))
    /\ newFile' = nf
    /\ dirs' = d
    /\ outcomes' = Append(outcomes, Outcome(nf, d, PrjDir(sourcePath)))
    /\ pc' = "done"

\* Bound: the number of runs on one source file.
MaxRuns == 2

\* Lines 31-48: newFile, the source file, its extension, the lock file.
RunBegin ==
    /\ pc \in {"idle", "done"}
    /\ runs < MaxRuns
    /\ runs' = runs + 1
    /\ dirs0' = dirs
    /\ ioLog' = <<>>
    /\ exc' = None
    /\ IF ~sourcePath.isfile
       THEN Finish(<<>>, "!File \"" \o norm_path(SourceFile(sourcePath)) \o "\" not found.",
                   None, dirs)
       ELSE IF sourcePath.ext # EXTENSION
       THEN Finish(<<>>,
                   "!File type of \"" \o norm_path(SourceFile(sourcePath)) \o "\" not supported.",
                   None, dirs)
       ELSE IF cwdLock
       THEN Finish(<<>>, "!Please exit novelWriter.", None, dirs)
       ELSE /\ uiLog' = <<>>
            /\ newFile' = None
            /\ pc' = "makedirs"
            /\ UNCHANGED <<dirs, outcomes>>
    /\ UNCHANGED <<sourcePath, cwdLock, ui, w, hvars, rvars, lvars>>

\* Lines 50-64: the project directory, after the backup if content/ exists.
RunMakeDirs ==
    /\ pc = "makedirs"
    /\ \E m \in {os_makedirs(dirs, PrjDir(sourcePath))} :
        IF m.raised = None
        THEN /\ dirs' = m.dirs
             /\ ioLog' = Append(ioLog, IO("makedirs", PrjDir(sourcePath) \o CONTENT_DIR))
             /\ pc' = "check"
             /\ UNCHANGED <<uiLog, newFile, outcomes>>
        ELSE \E b \in {backup(dirs, PrjDir(sourcePath))} :
             IF b.failed
             THEN /\ ioLog' = ioLog \o b.log
                  /\ Finish(uiLog, "!Unable to back up the project.", newFile, b.dirs)
             ELSE IF b.raised # None
             THEN /\ dirs' = b.dirs
                  /\ ioLog' = ioLog \o b.log
                  /\ pc' = "raised"
                  /\ UNCHANGED <<uiLog, newFile, outcomes>>
             ELSE /\ dirs' = b.dirs
                  /\ ioLog' = ioLog \o b.log
                  /\ uiLog' = Append(uiLog, Log("set_info_what",
                         "Backup folder \"" \o norm_path(PrjDir(sourcePath)) \o b.extension
                         \o "\" saved."))
                  /\ pc' = "check"
                  /\ UNCHANGED <<newFile, outcomes>>
    /\ UNCHANGED <<sourcePath, dirs0, cwdLock, ui, exc, runs, w, hvars, rvars, lvars>>

\* Lines 65-69: the target object with its new allocator, the message, and
\* check (mm2nw.py 968-985), which asks before overwriting the target file.
RunCheck ==
    /\ pc = "check"
    /\ nwHandles' = [nwHandles EXCEPT !["A"] = Handles]
    /\ w' = WriteIdle
    /\ LET what == Log("set_info_what",
                       "Create a novelWriter project file from Mindmap\nNew project: \""
                       \o norm_path(TargetFile(sourcePath)) \o "\"")
           ask == Log("ask_yes_no",
                      "Overwrite existing file \"" \o norm_path(TargetFile(sourcePath)) \o "\"?")
       IN IF dirs[PrjDir(sourcePath)].nwx # <<>>
          THEN /\ uiLog' = uiLog \o <<what, ask>>
               /\ IF ask_yes_no(ui)
                  THEN /\ pc' = "read"
                       /\ UNCHANGED exc
                  ELSE /\ pc' = "finally"
                       /\ exc' = "Action canceled by user."
          ELSE /\ uiLog' = Append(uiLog, what)
               /\ pc' = "read"
               /\ UNCHANGED exc
    /\ UNCHANGED <<kdf, calls, lastCall, rvars, sourcePath, dirs, dirs0, cwdLock, ui, ioLog,
                   newFile, runs, outcomes, lvars>>

\* Lines 70-71: sourceFile.novel = Novel(); sourceFile.read().  What read
\* returns is kept in rres; run does not look at it.
RunRead ==
    /\ pc = "read"
    /\ \E r \in {MmFile_read(mm, kwargs, Novel)} :
       /\ novel' = r.novel
       /\ rres' = [raised |-> r.raised, ret |-> r.ret]
       /\ IF r.raised
          THEN /\ exc' = str_ex(r.ret)
               /\ pc' = "finally"
          ELSE /\ pc' = "write"
               /\ UNCHANGED exc
    /\ ioLog' = Append(ioLog, IO("parse", SourceFile(sourcePath)))
    /\ UNCHANGED <<hvars, mm, kwargs, rpc, rpos, sourcePath, dirs, dirs0, cwdLock, ui, uiLog,
                   newFile, runs, outcomes, w, lvars>>

\* The paths of the content files written, in their order.
RECURSIVE WriteLog(_, _)
WriteLog(prjDir, files) ==
    IF files = <<>> THEN <<>>
    ELSE <<IO("write", prjDir \o CONTENT_DIR \o join(Head(files).path[2]) \o ".nwd")>>
         \o WriteLog(prjDir, Tail(files))

(***************************************************************************)
(* Lines 72-73: targetFile.novel = sourceFile.novel; targetFile.write().   *)
(* NwxFile.write (mm2nw.py 2292-2680) takes one step per item it creates.  *)
(***************************************************************************)

\* What a step of write leaves alone.
WriteFrame ==
    <<kdf, calls, lastCall, rvars, sourcePath, dirs0, cwdLock, ui, uiLog, newFile, runs,
      outcomes, lvars>>

Goto(wl, phase, i, j) == [wl EXCEPT !.phase = phase, !.i = i, !.j = j]

\* The statements between an item and the next create_member.
After(item, x) ==
    CASE item = "novelFolder" ->
            Goto([x EXCEPT !.novelFolderHandle = x.handle, !.order = Push(@)], "chapter", 1, 0)
      [] item = "partFolder" ->
            Goto([x EXCEPT !.partFolderHandle = x.handle, !.order = Push(@)], "heading", x.i, 0)
      [] item = "chapterFolder" ->
            Goto([x EXCEPT !.chapterFolderHandle = x.handle, !.order = Push(@)],
                 "heading", x.i, 0)
      [] item = "partHeading" -> Goto([x EXCEPT !.order = Push(@)], "scene", x.i, 1)
      [] item = "chapterHeading" -> Goto(x, "scene", x.i, 1)
      [] item = "scene" -> Goto(x, "scene", x.i, x.j + 1)
      [] item = "characterFolder" ->
            Goto([x EXCEPT !.folderHandle = x.handle, !.order = Push(@)], "character", 1, 0)
      [] item = "worldFolder" ->
            Goto([x EXCEPT !.folderHandle = x.handle, !.order = Push(@)], "location", 1, 0)
      [] item = "objectFolder" ->
            Goto([x EXCEPT !.folderHandle = x.handle, !.order = Push(@)], "object", 1, 0)
      [] OTHER -> Goto(x, x.phase, x.i + 1, 0)

\* One item: create_member(seed), the item and its content file, then the
\* statements that lead to the next item; an exception ends write.
WriteItem(wl, seed, item, doc, name) ==
    \E r \in {create_member(nwHandles["A"], kdf, seed)} :
    \E p \in {put_item(wl, r, item, doc)} :
        /\ nwHandles' = [nwHandles EXCEPT !["A"] = p.nwHandles]
        /\ dirs' = write_docs(dirs, PrjDir(sourcePath), p.files)
        /\ ioLog' = ioLog \o WriteLog(PrjDir(sourcePath), p.files)
        /\ IF p.raised # None
           THEN /\ w' = p.w
                /\ exc' = str_ex(p.raised)
                /\ pc' = "finally"
           ELSE /\ w' = After(name, p.w)
                /\ UNCHANGED <<exc, pc>>
        /\ UNCHANGED WriteFrame

\* An exception raised before create_member is called.
WriteRaise(wl, ex) ==
    /\ w' = wl
    /\ exc' = str_ex(ex)
    /\ pc' = "finally"
    /\ UNCHANGED <<nwHandles, dirs, ioLog>>
    /\ UNCHANGED WriteFrame

\* Lines 2345-2369: the novel folder.
WriteNovelFolder ==
    /\ pc = "write"
    /\ w.phase = "idle"
    /\ WriteItem([w EXCEPT !.order = <<0>>], "novelFolderHandle",
                 root_folder(<<0>>, "Novel", "NOVEL", None), NoDoc, "novelFolder")

\* Lines 2371-2391 and 2423-2443: the folder of the next part or chapter.
WriteFolder ==
    /\ pc = "write"
    /\ w.phase = "chapter"
    /\ w.i <= Len(novel.srtChapters)
    /\ LET chId == novel.srtChapters[w.i]
           chapter == novel.chapters[chId]
       IN IF chapter.chLevel = 1
          THEN IF chapter.title = None
               THEN WriteRaise([w EXCEPT !.hasPartLevel = TRUE, !.isInChapter = FALSE],
                               "TypeError")
               ELSE WriteItem([w EXCEPT !.hasPartLevel = TRUE, !.isInChapter = FALSE],
                              chId \o chapter.title \o "Folder",
                              partFolder(w, chapter), NoDoc, "partFolder")
          ELSE WriteItem([w EXCEPT !.isInChapter = TRUE],
                         chId \o Str(chapter.title) \o "Folder",
                         chapterFolder(w, chapter), NoDoc, "chapterFolder")

\* Lines 2394-2421 and 2446-2471: its heading and the content file of it.
WriteHeading ==
    /\ pc = "write"
    /\ w.phase = "heading"
    /\ LET chId == novel.srtChapters[w.i]
           chapter == novel.chapters[chId]
       IN IF chapter.chLevel = 1
          THEN WriteItem(w, chId \o chapter.title,
                         heading(w, chapter, w.partFolderHandle),
                         add_chapter(novel, chId), "partHeading")
          ELSE WriteItem(w, chId \o Str(chapter.title),
                         heading(w, chapter, w.chapterFolderHandle),
                         add_chapter(novel, chId), "chapterHeading")

\* Lines 2472-2512: the next scene of the chapter.
WriteScene ==
    /\ pc = "write"
    /\ w.phase = "scene"
    /\ w.j <= Len(novel.chapters[novel.srtChapters[w.i]].srtScenes)
    /\ LET scId == novel.chapters[novel.srtChapters[w.i]].srtScenes[w.j]
           scene == novel.scenes[scId]
       IN WriteItem(w, scId \o Str(scene.title),
                    scene_item(w, scene, kwargs.scene_status),
                    add_scene(novel, scId), "scene")

\* Line 2514: order.pop() after the scenes of the chapter.
WriteChapterEnd ==
    /\ pc = "write"
    /\ w.phase = "scene"
    /\ w.j > Len(novel.chapters[novel.srtChapters[w.i]].srtScenes)
    /\ w' = Goto([w EXCEPT !.order = Pop(@)], "chapter", w.i + 1, 0)
    /\ UNCHANGED <<nwHandles, dirs, ioLog, exc, pc>>
    /\ UNCHANGED WriteFrame

\* Lines 2516-2537: order.pop() after the chapters, the character folder.
WriteCharacterFolder ==
    /\ pc = "write"
    /\ w.phase = "chapter"
    /\ w.i > Len(novel.srtChapters)
    /\ WriteItem([w EXCEPT !.order = Pop(@)], "characterFolderHandle",
                 root_folder(Pop(w.order), "Characters", "CHARACTER", "None"),
                 NoDoc, "characterFolder")

\* Lines 2538-2569: the next character.
WriteCharacter ==
    /\ pc = "write"
    /\ w.phase = "character"
    /\ w.i <= Len(novel.srtCharacters)
    /\ LET crId == novel.srtCharacters[w.i]
           cr == novel.characters[crId]
       IN WriteItem(w, crId \o Str(cr.title), character_item(w, cr),
                    add_character(novel, crId), "element")

\* Lines 2570-2592: order.pop() after the characters, the world folder.
WriteWorldFolder ==
    /\ pc = "write"
    /\ w.phase = "character"
    /\ w.i > Len(novel.srtCharacters)
    /\ WriteItem([w EXCEPT !.order = Pop(@)], "worldFolderHandle",
                 root_folder(Pop(w.order), "Locations", "WORLD", "None"),
                 NoDoc, "worldFolder")

\* Lines 2593-2619: the next location.
WriteLocation ==
    /\ pc = "write"
    /\ w.phase = "location"
    /\ w.i <= Len(novel.srtLocations)
    /\ LET lcId == novel.srtLocations[w.i]
           lc == novel.locations[lcId]
       IN WriteItem(w, lcId \o Str(lc.title), element_item(w, lc, "WORLD", "Place "),
                    add_element(lc), "element")

\* Lines 2620-2642: order.pop() after the locations, the object folder.
WriteObjectFolder ==
    /\ pc = "write"
    /\ w.phase = "location"
    /\ w.i > Len(novel.srtLocations)
    /\ WriteItem([w EXCEPT !.order = Pop(@)], "objectFolderHandle",
                 root_folder(Pop(w.order), "Items", "OBJECT", "None"),
                 NoDoc, "objectFolder")

\* Lines 2643-2669: the next item.
WriteObject ==
    /\ pc = "write"
    /\ w.phase = "object"
    /\ w.i <= Len(novel.srtItems)
    /\ LET itId == novel.srtItems[w.i]
           it == novel.items[itId]
       IN WriteItem(w, itId \o Str(it.title), element_item(w, it, "OBJECT", "Object "),
                    add_element(it), "element")

\* Lines 2670-2680: order.pop() after the items, the project file.
WriteProjectFile ==
    /\ pc = "write"
    /\ w.phase = "object"
    /\ w.i > Len(novel.srtItems)
    /\ w' = Goto([w EXCEPT !.order = Pop(@)], "done", 0, 0)
    /\ dirs' = write_nwx(dirs, PrjDir(sourcePath), <<nwx_file(w, novel)>>)
    /\ ioLog' = Append(ioLog, IO("write", TargetFile(sourcePath)))
    /\ pc' = "finally"
    /\ UNCHANGED <<nwHandles, exc>>
    /\ UNCHANGED WriteFrame

\* Lines 74-81: the message, newFile, set_info_how.
RunEnd ==
    /\ pc = "finally"
    /\ IF exc # None
       THEN Finish(uiLog, "!" \o exc, None, dirs)
       ELSE Finish(uiLog, "File written: \"" \o norm_path(TargetFile(sourcePath)) \o "\".",
                   TargetFile(sourcePath), dirs)
    /\ UNCHANGED <<hvars, rvars, sourcePath, dirs0, cwdLock, ui, ioLog, exc, runs, w, lvars>>

Next ==
    \/ RunBegin
    \/ RunMakeDirs
    \/ RunCheck
    \/ RunRead
    \/ WriteNovelFolder
    \/ WriteFolder
    \/ WriteHeading
    \/ WriteScene
    \/ WriteChapterEnd
    \/ WriteCharacterFolder
    \/ WriteCharacter
    \/ WriteWorldFolder
    \/ WriteLocation
    \/ WriteObjectFolder
    \/ WriteObject
    \/ WriteProjectFile
    \/ RunEnd

(***************************************************************************)
(* The runs checked: source files, project directories, backups, user      *)
(* interfaces and key derivations                                          *)
(***************************************************************************)

\* A part with two chapters of one scene each.
MmNovel == MindMap(<<[icons |-> <<>>, n |-> 2]>>, 1)

\* A notes part with a chapter of one scene, and a main character.
MmNotes == MindMap(<<[icons |-> <<"info">>, n |-> 1], [icons |-> <<"full-1">>, n |-> 1]>>, 1)

\* A location, an item and a minor character.
MmWorld ==
    MindMap(<<[icons |-> <<"gohome">>, n |-> 1], [icons |-> <<"password">>, n |-> 1],
              [icons |-> <<"full-2">>, n |-> 1]>>, 0)

\* A part node without TEXT and without rich content.
MmUntitled ==
    [wellformed |-> TRUE,
     node |-> <<Element("Demo", <<>>, <<>>,
                        <<TopNode(1, <<>>, 1, 1), Element(None, <<>>, <<>>, <<>>)>>)>>]

RunMindMaps == {Garbage, NoRootNode, MmNovel, MmNotes, MmWorld, MmUntitled}

RunSources ==
    {[path |-> [name |-> "Demo", ext |-> ".mm", isfile |-> FALSE], mm |-> Garbage],
     [path |-> [name |-> "Demo", ext |-> ".txt", isfile |-> TRUE], mm |-> Garbage]}
    \cup {[path |-> [name |-> "Demo", ext |-> ".mm", isfile |-> TRUE], mm |-> m] :
          m \in RunMindMaps}

DefaultKwargs == KW(TRUE, TRUE, TRUE, TRUE, TRUE)

\* A project written before, with one content file; a backup of it.
OldNwx(title) == <<[title |-> title, count |-> "0", content |-> <<>>]>>

OldDoc ==
    [name |-> "Old", path |-> <<NoParent, <<"0">>>>, kind |-> <<"NOVEL", "DOCUMENT">>,
     lines |-> <<>>]

OldProject(lock) == Dir(TRUE, OldNwx("Old"), SetItem(EmptyDict, <<"0">>, OldDoc), lock)

\* A project directory without content/, and an empty directory.
BareProject == Dir(FALSE, OldNwx("Old"), EmptyDict, FALSE)

EmptyProject == Dir(FALSE, <<>>, EmptyDict, FALSE)

\* The directories: the project (none if project = <<>>) and the backups
\* with the extensions extension_at(n), n in baks.
FileSystem(project, baks) ==
    [p \in (IF project = <<>> THEN {} ELSE {"./Demo.nw"})
           \cup {"./Demo.nw" \o extension_at(n) : n \in baks} |->
        IF p = "./Demo.nw" THEN project[1]
        ELSE Dir(TRUE, OldNwx("Backup"), EmptyDict, FALSE)]

\* Without a content/ directory to collide with, and with few backups.
LightFileSystems ==
    {FileSystem(<<>>, {}), FileSystem(<<>>, {0}),
     FileSystem(<<BareProject>>, {}), FileSystem(<<EmptyProject>>, {}),
     FileSystem(<<OldProject(FALSE)>>, {}), FileSystem(<<OldProject(TRUE)>>, {}),
     FileSystem(<<OldProject(FALSE)>>, {0}), FileSystem(<<OldProject(FALSE)>>, {0, 1}),
     FileSystem(<<OldProject(FALSE)>>, {0, 2})}

\* With all backup names taken but the last two, the last one, none.
HeavyFileSystems ==
    {FileSystem(<<OldProject(FALSE)>>, 0..(MAX_I - 1)),
     FileSystem(<<OldProject(FALSE)>>, 0..MAX_I),
     FileSystem(<<OldProject(FALSE)>>, 0..(MAX_I + 1))}

Uis == {[class |-> "Ui", answer |-> TRUE], [class |-> "UiCmd", answer |-> TRUE],
        [class |-> "UiCmd", answer |-> FALSE]}

\* The seed texts write passes to create_member for a novel.
Seeds(nv) ==
    {"novelFolderHandle", "characterFolderHandle", "worldFolderHandle", "objectFolderHandle"}
    \cup UNION {{chId \o Str(nv.chapters[chId].title),
                 chId \o Str(nv.chapters[chId].title) \o "Folder"} : chId \in DOMAIN nv.chapters}
    \cup {scId \o Str(nv.scenes[scId].title) : scId \in DOMAIN nv.scenes}
    \cup {crId \o Str(nv.characters[crId].title) : crId \in DOMAIN nv.characters}
    \cup {lcId \o Str(nv.locations[lcId].title) : lcId \in DOMAIN nv.locations}
    \cup {itId \o Str(nv.items[itId].title) : itId \in DOMAIN nv.items}

RunSeeds == UNION {Seeds(MmFile_read(m, DefaultKwargs, Novel).novel) : m \in RunMindMaps}

RECURSIVE SetToSeq(_)
SetToSeq(S) ==
    IF S = {} THEN <<>>
    ELSE LET x == CHOOSE x \in S : TRUE IN <<x>> \o SetToSeq(S \ {x})

\* A key derivation that gives every seed another handle, and one that gives
\* some seeds the same handle.
RunKdf(collide) ==
    [t \in RunSeeds |->
        LET seeds == SetToSeq(RunSeeds)
            n == (CHOOSE i \in DOMAIN seeds : seeds[i] = t) - 1
        IN Beh(IF collide THEN n ELSE (n % 4) + 16 * (n \div 4), 0)]

RunKdfs == {RunKdf(FALSE), RunKdf(TRUE)}

Init ==
    /\ nwHandles = [a \in Allocs |-> <<>>]
    /\ calls = [a \in Allocs |-> <<>>]
    /\ lastCall = NoCall
    /\ novel = Novel
    /\ rpc = "start"
    /\ rpos = 0
    /\ rres = NoResult
    /\ w = WriteIdle
    /\ \E s \in RunSources, u \in Uis, l \in BOOLEAN :
        /\ sourcePath = s.path
        /\ mm = s.mm
        /\ ui = u
        /\ cwdLock = l
        /\ \/ /\ dirs \in LightFileSystems
              /\ kdf \in RunKdfs
           \/ /\ dirs \in HeavyFileSystems
              /\ kdf = RunKdf(FALSE)
              /\ s.mm \in {Garbage, MmNovel}
              /\ s.path.isfile
              /\ s.path.ext = EXTENSION
              /\ u.class = "Ui"
              /\ ~l
    /\ kwargs = DefaultKwargs
    /\ dirs0 = dirs
    /\ uiLog = <<>>
    /\ ioLog = <<>>
    /\ newFile = None
    /\ exc = None
    /\ pc = "idle"
    /\ runs = 0
    /\ outcomes = <<>>
    /\ LIdle

Spec == Init /\ [][Next]_vars

(***************************************************************************)
(* NwxFile.write on its own: the novels MmFile.read returns for mindmaps   *)
(* of several parts, written into a new project directory.                 *)
(***************************************************************************)

\* Bounds: the part nodes of a mindmap written, and the largest scene status.
MaxParts == 2

MaxStatus == 7

\* A part node with the notes icon, then a part node without icon.
MmNotesThenNovel ==
    MindMap(<<[icons |-> <<"info">>, n |-> 1], [icons |-> <<>>, n |-> 1]>>, 1)

\* Up to MaxParts part nodes of up to MaxKids chapters, with no scenes or
\* MaxScenes scenes per chapter, followed or not by the group nodes.
WriteMindMaps ==
    {MindMap(parts \o groups, m) :
        parts \in UNION {[1..n -> [icons : {<<>>}, n : 0..MaxKids]] : n \in 0..MaxParts},
        groups \in {<<>>, <<[icons |-> <<"gohome">>, n |-> 1], [icons |-> <<"full-1">>, n |-> 2],
                            [icons |-> <<"password">>, n |-> 1]>>},
        m \in {0, MaxScenes}}
    \cup {MmNotes, MmNotesThenNovel}

\* The novels written: what read returns with and without part headings,
\* and a novel whose scenes all carry one status from -MaxStatus to MaxStatus.
WriteInputs ==
    {[mm |-> m, kwargs |-> k, novel |-> MmFile_read(m, k, Novel).novel] :
        m \in WriteMindMaps,
        k \in {KW(TRUE, TRUE, TRUE, TRUE, TRUE), KW(FALSE, TRUE, TRUE, TRUE, TRUE)}}
    \cup {[mm |-> MmNovel, kwargs |-> DefaultKwargs,
           novel |-> LET nv == MmFile_read(MmNovel, DefaultKwargs, Novel).novel IN
                     [nv EXCEPT !.scenes = [scId \in DOMAIN nv.scenes |->
                                               [nv.scenes[scId] EXCEPT !.status = status]]]] :
          status \in (0 - MaxStatus)..MaxStatus}

\* A key derivation that gives every seed of these novels another handle.
WriteKdf ==
    LET seeds == SetToSeq(UNION {Seeds(x.novel) : x \in WriteInputs}) IN
    [t \in Range(seeds) |->
        LET n == (CHOOSE i \in DOMAIN seeds : seeds[i] = t) - 1
        IN Beh((n % 4) + 16 * (n \div 4), 0)]

\* run has made the project directory and read has returned (lines 50-72).
WInit ==
    /\ nwHandles = [a \in Allocs |-> <<>>]
    /\ kdf = WriteKdf
    /\ calls = [a \in Allocs |-> <<>>]
    /\ lastCall = NoCall
    /\ \E x \in WriteInputs :
        /\ mm = x.mm
        /\ kwargs = x.kwargs
        /\ novel = x.novel
    /\ rpc = "done"
    /\ rpos = 0
    /\ rres = [raised |-> FALSE, ret |-> None]
    /\ sourcePath = [name |-> "Demo", ext |-> ".mm", isfile |-> TRUE]
    /\ dirs = os_makedirs(EmptyDict, "./Demo.nw").dirs
    /\ dirs0 = EmptyDict
    /\ cwdLock = FALSE
    /\ ui = [class |-> "Ui", answer |-> TRUE]
    /\ uiLog = <<>>
    /\ ioLog = <<>>
    /\ newFile = None
    /\ exc = None
    /\ pc = "write"
    /\ runs = 1
    /\ outcomes = <<>>
    /\ w = WriteIdle
    /\ LIdle

WNext ==
    \/ WriteNovelFolder
    \/ WriteFolder
    \/ WriteHeading
    \/ WriteScene
    \/ WriteChapterEnd
    \/ WriteCharacterFolder
    \/ WriteCharacter
    \/ WriteWorldFolder
    \/ WriteLocation
    \/ WriteObjectFolder
    \/ WriteObject
    \/ WriteProjectFile
    \/ RunEnd

SpecWrite == WInit /\ [][WNext]_vars

(***************************************************************************)
(* Claims about the allocator                                              *)
(***************************************************************************)

\* The handles allocator a has returned or registered before its n-th call.
EarlierHandles(a, n) ==
    {calls[a][j].ret : j \in {j \in 1..(n - 1) :
            calls[a][j].op = "create_member" /\ ~calls[a][j].raised}}
    \cup {calls[a][j].arg : j \in {j \in 1..(n - 1) :
            calls[a][j].op = "add_member" /\ calls[a][j].ret}}

Returned(a, n) ==
    /\ n \in DOMAIN calls[a]
    /\ calls[a][n].op = "create_member"
    /\ ~calls[a][n].raised

\* C1: every handle create_member returns is exactly 13 characters long, uses
\* only the characters a-f and 0-9, and differs from every handle the same
\* allocator returned or registered earlier; it is the unpadded candidate of
\* the last salt tried (a shorter candidate is rejected, never returned).
C1_HandleCompliantAndFresh ==
    \A a \in Allocs : \A n \in DOMAIN calls[a] :
        Returned(a, n) =>
            /\ Len(calls[a][n].ret) = 13
            /\ \A i \in DOMAIN calls[a][n].ret :
                   calls[a][n].ret[i] \in
                       {"a", "b", "c", "d", "e", "f", "0", "1", "2", "3", "4", "5", "6", "7", "8", "9"}
            /\ calls[a][n].ret \notin EarlierHandles(a, n)
            /\ calls[a][n].ret = create_handle(kdf, calls[a][n].arg, calls[a][n].tried - 1)
            /\ (n = Len(calls[a]) /\ lastCall.alloc = a) =>
                   /\ calls[a][n].ret \notin Range(lastCall.before)
                   /\ nwHandles[a] = Append(lastCall.before, calls[a][n].ret)

\* Witness of C1: a handle was returned after two candidates of 12 characters
\* were rejected, and a later call returned after a collision with a handle
\* issued earlier.
C1_Witness ==
    /\ Len(calls["A"]) = 2
    /\ Returned("A", 1) /\ calls["A"][1].tried = 3
    /\ Returned("A", 2) /\ calls["A"][2].tried = 4
    /\ Len(create_handle(kdf, "1a", 0)) = 12

\* C3 as claimed: create_member raises as soon as 1000 candidates (salts 0 to
\* 999) were rejected, never creates a 1001st candidate, and leaves the
\* registry as it was when it raises.
C3_RaisesAfter1000Candidates ==
    \A n \in DOMAIN calls["A"] :
        calls["A"][n].op = "create_member" =>
            /\ calls["A"][n].tried <= 1000
            /\ calls["A"][n].raised => calls["A"][n].tried = 1000
            /\ (calls["A"][n].raised /\ n = Len(calls["A"])) =>
                   nwHandles["A"] = lastCall.before

(***************************************************************************)
(* Claims about MmFile.read                                                *)
(***************************************************************************)

GroupIcons(kw) ==
    {kw.main_characters_icon, kw.minor_characters_icon, kw.locations_icon, kw.items_icon}

\* The chapter nodes of a mindmap, in document order: the children of the
\* top-level nodes that carry no group icon.
RECURSIVE ChapterNodes(_, _)
ChapterNodes(kw, xmlTops) ==
    IF xmlTops = <<>> THEN <<>>
    ELSE (IF Range(Head(xmlTops).icon) \cap GroupIcons(kw) = {}
          THEN Head(xmlTops).node ELSE <<>>) \o ChapterNodes(kw, Tail(xmlTops))

IsLevel0(chId) == novel.chapters[chId].chLevel = 0

Level0Chapters == SelectSeq(novel.srtChapters, IsLevel0)

\* The places (chapter ID, position) where a scene ID is listed.
Owners(scId) ==
    UNION {{<<chId, k>> : k \in {k \in DOMAIN novel.chapters[chId].srtScenes :
                                  novel.chapters[chId].srtScenes[k] = scId}} :
           chId \in DOMAIN novel.chapters}

ReadReturned ==
    /\ rpc = "done"
    /\ ~rres.raised
    /\ rres.ret = None
    /\ kwargs.export_scenes

\* C10: when read has returned for a mindmap whose chapter nodes number N,
\* srtChapters lists exactly N chapters of level 0, in the order of the
\* chapter nodes and with their titles; the i-th of them lists exactly as
\* many scenes as the i-th chapter node has scene nodes, in their order and
\* with their titles, each with status 1; every scene is listed exactly once
\* and by a chapter of level 0, never by a part of level 1.
C10_ChaptersOwnScenesInOrder ==
    ReadReturned =>
        LET xmlChapters == ChapterNodes(kwargs, Head(mm.node).node)
            chIds == Level0Chapters
        IN /\ Len(chIds) = Len(xmlChapters)
           /\ \A n \in DOMAIN chIds :
                LET ch == novel.chapters[chIds[n]]
                    xmlScenes == xmlChapters[n].node
                IN /\ ch.title = xmlChapters[n].TEXT
                   /\ Len(ch.srtScenes) = Len(xmlScenes)
                   /\ \A k \in DOMAIN xmlScenes :
                        /\ ch.srtScenes[k] \in DOMAIN novel.scenes
                        /\ novel.scenes[ch.srtScenes[k]].title
                               = "S" \o SubSeq(xmlChapters[n].TEXT, 2, 3) \o ToString(k)
                        /\ novel.scenes[ch.srtScenes[k]].status = 1
           /\ \A scId \in DOMAIN novel.scenes :
                /\ Cardinality(Owners(scId)) = 1
                /\ \A o \in Owners(scId) : novel.chapters[o[1]].chLevel = 0
           /\ \A chId \in DOMAIN novel.chapters :
                novel.chapters[chId].chLevel = 1 => novel.chapters[chId].srtScenes = <<>>

\* C10 witness: read has returned with two parts of two chapters of two
\* scenes each.
C10_Witness ==
    /\ ReadReturned
    /\ Len(Level0Chapters) = 4
    /\ Len(novel.srtChapters) = 6
    /\ Cardinality(DOMAIN novel.scenes) = 8
    /\ \A n \in 1..4 : Len(novel.chapters[Level0Chapters[n]].srtScenes) = 2

(***************************************************************************)
(* Claims about MmNwConverter.run                                          *)
(***************************************************************************)

RunDone == pc = "done"

\* The last UI message of the run.
LastMessage == uiLog[Len(uiLog)]

\* The run has ended with the failure message text.
Failed(text) ==
    /\ RunDone
    /\ uiLog # <<>>
    /\ LastMessage = Log("set_info_how", "FAIL: " \o text)

\* The n-th backup name was a directory when the run began.
NameTaken(n) == os_path_isdir(dirs0, PrjDir(sourcePath) \o extension_at(n))

\* The positions of the run's file system events of one kind.
Events(op) == {k \in DOMAIN ioLog : ioLog[k].op = op}

Succeeded(i) == outcomes[i].newFile # None

\* C2: two runs on the same mindmap with the same settings that both write
\* the project leave the same project file (every entry with its handle,
\* parent, order, type, class, layout and status) and the same content
\* files: the handles of a run depend on the seed texts only, in their order.
C2_RunsReproduce ==
    \A i \in DOMAIN outcomes : \A j \in DOMAIN outcomes :
        (Succeeded(i) /\ Succeeded(j)) =>
            /\ outcomes[i].nwx = outcomes[j].nwx
            /\ outcomes[i].docs = outcomes[j].docs

\* C2 witness: two runs have written a project of at least eight entries
\* with a key derivation under which seeds collide.
C2_Witness ==
    /\ Len(outcomes) = 2
    /\ Succeeded(1)
    /\ Succeeded(2)
    /\ kdf = RunKdf(TRUE)
    /\ Len(outcomes[2].nwx[1].content) >= 8
    /\ DOMAIN outcomes[2].docs # {}

\* C4 as claimed: when the source cannot be parsed as XML and read has
\* returned its '!' message, the run writes no file, newFile is None and the
\* final message carries the FAIL: prefix.
C4_UnparsableSourceAborts ==
    (RunDone /\ ~mm.wellformed /\ Events("parse") # {} /\ rres.ret = CanNotProcess) =>
        /\ Events("write") = {}
        /\ newFile = None
        /\ SubSeq(LastMessage.text, 1, 5) = "FAIL:"

\* C5 as claimed: when the project directory exists as the run begins, no
\* directory is created and no file is written before the directory was
\* renamed aside.
C5_ExistingDirRenamedFirst ==
    \A k \in DOMAIN ioLog :
        (os_path_isdir(dirs0, PrjDir(sourcePath)) /\ ioLog[k].op \in {"makedirs", "write"}) =>
            \E j \in 1..(k - 1) : ioLog[j].op = "replace"

\* C6: the directory a run renames the project to carries the first name of
\* .bak, .bk000, .bk001, ... that was no directory when the run began; no
\* rename has an existing backup directory as its target.
C6_BackupNameFirstFree ==
    \A k \in Events("replace") :
        \E n \in 0..(MAX_I + 1) :
            /\ ioLog[k].path = PrjDir(sourcePath) \o extension_at(n)
            /\ ~NameTaken(n)
            /\ \A m \in 0..(n - 1) : NameTaken(m)

\* C6 witness: with .bak and .bk000 taken and .bk001 free, a run has renamed
\* the project to .bk001 and written the new one.
C6_Witness ==
    /\ RunDone
    /\ newFile # None
    /\ NameTaken(0)
    /\ NameTaken(1)
    /\ ~NameTaken(2)
    /\ ioLog # <<>>
    /\ ioLog[1] = IO("replace", "./Demo.nw.bk001")

\* C7 as claimed: a run ends with 'Unable to back up the project' only when
\* all 1001 names .bak, .bk000, ..., .bk999 were directories as it began.
C7_FailsOnlyWhenAllNamesTaken ==
    Failed("Unable to back up the project.") => \A n \in 0..(MAX_I + 1) : NameTaken(n)

\* C8: when a run ends with 'Unable to back up the project', every directory
\* is as it was when the run began, with all it holds, the run has read and
\* written nothing, and newFile is None.
C8_FailedRotationChangesNothing ==
    Failed("Unable to back up the project.") =>
        /\ dirs = dirs0
        /\ ioLog = <<>>
        /\ newFile = None

\* C8 witness: a run has failed to back up a project that holds a content
\* file, and the project is still there.
C8_Witness ==
    /\ Failed("Unable to back up the project.")
    /\ os_path_isdir(dirs, PrjDir(sourcePath))
    /\ DOMAIN dirs[PrjDir(sourcePath)].docs # {}
    /\ dirs[PrjDir(sourcePath)].nwx # <<>>

WriteReturned == w.phase = "done"

\* The entries of the project tree with the parent handle h, as emitted.
ChildrenOf(h) == SelectSeq(w.content, LAMBDA e : e.parent = h)

\* C11: the tree write has emitted holds one FOLDER per chapter of
\* srtChapters, in their order; the FILE entries below the n-th FOLDER are the
\* heading of the n-th chapter followed by one entry per scene of its
\* srtScenes, in their order; there is no other FILE entry of class NOVEL, and
\* every parent handle is the handle of an entry emitted earlier.
C11_OneFilePerChapterAndScene ==
    WriteReturned =>
        LET folders == SelectSeq(w.content, LAMBDA e : e.type = "FOLDER")
            files == SelectSeq(w.content, LAMBDA e : e.type = "FILE" /\ e.class = "NOVEL")
        IN /\ Len(folders) = Len(novel.srtChapters)
           /\ \A m \in DOMAIN folders : \A n \in DOMAIN folders :
                folders[m].handle = folders[n].handle => m = n
           /\ \A i \in DOMAIN files : \E n \in DOMAIN folders :
                files[i].parent = folders[n].handle
           /\ \A n \in DOMAIN novel.srtChapters :
                LET chapter == novel.chapters[novel.srtChapters[n]]
                    own == ChildrenOf(folders[n].handle)
                    ownFiles == SelectSeq(own, LAMBDA e : e.type = "FILE")
                IN /\ Len(ownFiles) = 1 + Len(chapter.srtScenes)
                   /\ ownFiles[1].name = chapter.title
                   /\ ownFiles[1].class = "NOVEL"
                   /\ \A k \in DOMAIN chapter.srtScenes :
                        /\ ownFiles[k + 1].name = novel.scenes[chapter.srtScenes[k]].title
                        /\ ownFiles[k + 1].class = "NOVEL"
           /\ \A k \in DOMAIN w.content :
                w.content[k].parent # NoParent =>
                    \E j \in 1..(k - 1) : w.content[j].handle = w.content[k].parent

\* C11 witness: write has returned for a novel of two parts, the first with
\* two chapters, every chapter with two scenes.
C11_Witness ==
    /\ WriteReturned
    /\ Len(novel.srtChapters) >= 5
    /\ Cardinality({chId \in DOMAIN novel.chapters : novel.chapters[chId].chLevel = 1}) = 2
    /\ Cardinality(DOMAIN novel.scenes) >= 6

\* C12 as claimed: below the NOVEL root and below every folder, the order
\* values of the children in emission order are 0, 1, ..., n-1.
C12_SiblingOrdersCountFromZero ==
    WriteReturned =>
        \A p \in DOMAIN w.content :
            (w.content[p].type = "FOLDER"
             \/ (w.content[p].type = "ROOT" /\ w.content[p].class = "NOVEL")) =>
                LET kids == ChildrenOf(w.content[p].handle)
                IN \A k \in DOMAIN kids : kids[k].order = ToString(k - 1)

\* C13 as claimed: write emits exactly four ROOT entries with the parent
\* "None", of the classes NOVEL, CHARACTER, WORLD, OBJECT in this sequence,
\* with the order values 0, 1, 2, 3.
C13_FourRootsInOrder ==
    WriteReturned =>
        LET roots == SelectSeq(w.content, LAMBDA e : e.type = "ROOT")
        IN /\ Len(roots) = 4
           /\ [k \in 1..4 |-> roots[k].class] = <<"NOVEL", "CHARACTER", "WORLD", "OBJECT">>
           /\ \A k \in 1..4 :
                /\ roots[k].parent = NoParent
                /\ roots[k].order = ToString(k - 1)

\* C14: after write has returned for a new project directory, the handles
\* content/ holds a file for are exactly the handles of the FILE entries of
\* nwProject.nwx, each file named after its handle; no ROOT or FOLDER entry
\* has a file.
C14_OneContentFilePerFileEntry ==
    WriteReturned =>
        LET prj == dirs[PrjDir(sourcePath)]
            tree == prj.nwx[1].content
        IN /\ DOMAIN prj.docs = {tree[k].handle : k \in {k \in DOMAIN tree : tree[k].type = "FILE"}}
           /\ \A h \in DOMAIN prj.docs : prj.docs[h].path[2] = h
           /\ \A k \in DOMAIN tree :
                tree[k].type \in {"ROOT", "FOLDER"} => tree[k].handle \notin DOMAIN prj.docs

\* C14 witness: a project with chapters, scenes, characters, a location and
\* an item was written.
C14_Witness ==
    /\ WriteReturned
    /\ novel.srtCharacters # <<>>
    /\ novel.srtLocations # <<>>
    /\ novel.srtItems # <<>>
    /\ DOMAIN novel.scenes # {}
    /\ Cardinality(DOMAIN dirs[PrjDir(sourcePath)].docs) >= 8

\* C15: the entry of a scene with the status s carries element s of the
\* scene_status tuple for s from 0 to 5 (counted from the end for s from -6
\* to -1, as a Python index) and the last element of the tuple for every
\* other s; write returns for every status.
C15_StatusSelectsTupleElement ==
    LET t == kwargs.scene_status
        len == Len(kwargs.scene_status)
    IN /\ exc = None
       /\ WriteReturned =>
            \A scId \in DOMAIN novel.scenes :
                LET s == novel.scenes[scId].status
                    files == SelectSeq(w.content,
                                 LAMBDA e : e.type = "FILE" /\ e.name = novel.scenes[scId].title)
                IN /\ Len(files) = 1
                   /\ files[1].status =
                        STATUS_IDS[IF s \in 0..(len - 1) THEN t[s + 1]
                                   ELSE IF s \in (0 - len)..(0 - 1) THEN t[len + s + 1]
                                   ELSE t[len]]

\* C15 witness: scenes with the status 6, one beyond the last index of the
\* tuple, were written with the ID of the last element, Done.
C15_Witness ==
    /\ WriteReturned
    /\ DOMAIN novel.scenes # {}
    /\ \A scId \in DOMAIN novel.scenes : novel.scenes[scId].status = 6
    /\ \E k \in DOMAIN w.content : w.content[k].type = "FILE" /\ w.content[k].status = "s000006"

(***************************************************************************)
(* The markup conversions of NwdNovelFile.  A text is a string; "\n" is    *)
(* the line break.                                                         *)
(***************************************************************************)
MaxSpan == 4

\* text[i:].startswith(p)
StartsAt(text, i, p) ==
    /\ i + Len(p) - 1 <= Len(text)
    /\ SubSeq(text, i, i + Len(p) - 1) = p

\* Whether '.' of a Python regular expression matches every character of text.
NoLineBreak(text) == \A k \in 1..Len(text) : SubSeq(text, k, k) /= "\n"

\* str.replace(old, new) on text[i:]: the occurrences are taken from the left
\* and do not overlap.
RECURSIVE str_replace(_, _, _, _)
str_replace(text, i, old, new) ==
    IF i > Len(text) THEN ""
    ELSE IF StartsAt(text, i, old)
    THEN new \o str_replace(text, i + Len(old), old, new)
    ELSE SubSeq(text, i, i) \o str_replace(text, i + 1, old, new)

\* for yw, md in MD_REPLACEMENTS: text = text.replace(yw, md), from entry k on.
RECURSIVE replace_each(_, _, _)
replace_each(text, replacements, k) ==
    IF k > Len(replacements) THEN text
    ELSE replace_each(str_replace(text, 1, replacements[k][1], replacements[k][2]),
                      replacements, k + 1)

\* The first index from i on whose character is not in chars.
RECURSIVE skip_chars(_, _, _)
skip_chars(text, i, chars) ==
    IF i <= Len(text) /\ SubSeq(text, i, i) \in chars
    THEN skip_chars(text, i + 1, chars)
    ELSE i

\* Where a match of '\[\/*[h|c|r|u]\d*\]' that begins at i ends, or 0.
tag_end(text, i) ==
    IF ~StartsAt(text, i, "[") THEN 0
    ELSE LET j == skip_chars(text, i + 1, {"/"})
         IN  IF j > Len(text) \/ SubSeq(text, j, j) \notin {"h", "|", "c", "r", "u"} THEN 0
             ELSE LET k == skip_chars(text, j + 1,
                                      {"0", "1", "2", "3", "4", "5", "6", "7", "8", "9"})
                  IN  IF StartsAt(text, k, "]") THEN k ELSE 0

\* re.sub('\[\/*[h|c|r|u]\d*\]', '', text) on text[i:].
RECURSIVE remove_tags(_, _)
remove_tags(text, i) ==
    IF i > Len(text) THEN ""
    ELSE IF tag_end(text, i) /= 0 THEN remove_tags(text, tag_end(text, i) + 1)
    ELSE SubSeq(text, i, i) \o remove_tags(text, i + 1)

\* Lines 1596-1639.
convert_from_yw(text, quick, doubleLinebreaks) ==
    IF quick THEN (IF text = None THEN "" ELSE text)
    ELSE IF text = None THEN ""
    ELSE LET MD_REPLACEMENTS ==
                 (IF doubleLinebreaks THEN << <<"\n", "\n\n">> >> ELSE <<>>) \o
                 << <<"[i] ", " [i]">>, <<"[b] ", " [b]">>, <<"[s] ", " [s]">>,
                    <<" [/i]", "[/i] ">>, <<" [/b]", "[/b] ">>, <<" [/s]", "[/s] ">>,
                    <<"[i]", "_">>, <<"[/i]", "_">>, <<"[b]", "**">>, <<"[/b]", "**">>,
                    <<"[s]", "~~">>, <<"[/s]", "~~">>, <<"  ", " ">> >>
         IN  remove_tags(replace_each(text, MD_REPLACEMENTS, 1), 1)

\* Whether body can be the group of '\*\*(.+?)\*\*' and '\~\~(.+?)\~\~' (plain)
\* or of '\_([^ ].+?[^ ])\_' (not plain).
span_body(body, plain) ==
    IF plain THEN Len(body) >= 1 /\ NoLineBreak(body)
    ELSE /\ Len(body) >= 3
         /\ SubSeq(body, 1, 1) /= " "
         /\ SubSeq(body, Len(body), Len(body)) /= " "
         /\ NoLineBreak(SubSeq(body, 2, Len(body) - 1))

\* Where the closing mark of the match that opens at i begins, or 0: the group
\* is not greedy, so the nearest closing mark that leaves a group is taken.
span_close(text, i, mark, plain) ==
    LET closes == {j \in (i + Len(mark))..Len(text) :
                       /\ StartsAt(text, j, mark)
                       /\ span_body(SubSeq(text, i + Len(mark), j - 1), plain)}
    IN  IF ~StartsAt(text, i, mark) \/ closes = {} THEN 0
        ELSE CHOOSE j \in closes : \A k \in closes : j <= k

\* re.sub(mark group mark, '[tag]\\1[/tag]', text) on text[i:].
RECURSIVE re_sub_span(_, _, _, _, _)
re_sub_span(text, i, mark, tag, plain) ==
    IF i > Len(text) THEN ""
    ELSE LET j == span_close(text, i, mark, plain)
         IN  IF j /= 0
             THEN "[" \o tag \o "]" \o SubSeq(text, i + Len(mark), j - 1) \o "[/" \o tag \o "]"
                  \o re_sub_span(text, j + Len(mark), mark, tag, plain)
             ELSE SubSeq(text, i, i) \o re_sub_span(text, i + 1, mark, tag, plain)

\* Lines 1641-1671, for a text that is a string.
convert_to_yw(text, doubleLinebreaks) ==
    LET bold == re_sub_span(text, 1, "**", "b", TRUE)
        italic == re_sub_span(bold, 1, "_", "i", FALSE)
        strike == re_sub_span(italic, 1, "~~", "s", TRUE)
    IN  IF doubleLinebreaks THEN str_replace(strike, 1, "\n\n", "\n") ELSE strike

\* The texts of n characters made of letters and single spaces.
RECURSIVE Words(_)
Words(n) ==
    IF n = 0 THEN {""}
    ELSE {word \o c : word \in Words(n - 1), c \in {"a", " "}}

\* Span texts: not empty, neither starting nor ending with a space.
SpanBodies ==
    {body \in UNION {Words(n) : n \in 1..MaxSpan} :
        /\ SubSeq(body, 1, 1) /= " "
        /\ SubSeq(body, Len(body), Len(body)) /= " "
        /\ \A k \in 1..Len(body) : ~StartsAt(body, k, "  ")}

Span(tag, body) == "[" \o tag \o "]" \o body \o "[/" \o tag \o "]"

\* Scene texts whose bold, italic and strikethrough spans are well formed.
SpanTexts ==
    {Span(tag, body) : tag \in {"b", "i", "s"}, body \in SpanBodies}
    \cup {Span("b", "bold") \o " and " \o Span("i", "em") \o " and " \o Span("s", "gone"),
          Span("b", "a") \o "\n" \o Span("s", "a"),
          "a " \o Span("i", "aaa") \o " a"}

\* Scene texts with other markup, with spaces next to the tags, and no text.
OtherTexts == {"[h1]a[/h1]  a", "[b] a [/b]", None}

MInit ==
    /\ HIdle
    /\ RIdle
    /\ CIdle
    /\ reader = NwxIdle
    /\ \E text \in SpanTexts \cup OtherTexts, d \in BOOLEAN :
        markup = [MarkupIdle EXCEPT !.pc = "write", !.doubleLinebreaks = d, !.yw = text]

\* Line 1866: text = self._convert_from_yw(scene.sceneContent).
ConvertFromYw ==
    /\ markup.pc = "write"
    /\ markup' = [markup EXCEPT !.pc = "read",
                      !.md = convert_from_yw(markup.yw, FALSE, markup.doubleLinebreaks)]
    /\ UNCHANGED <<hvars, rvars, cvars, reader>>

\* Line 1683: sceneContent = self._convert_to_yw(text).
ConvertToYw ==
    /\ markup.pc = "read"
    /\ markup' = [markup EXCEPT !.pc = "done",
                      !.back = convert_to_yw(markup.md, markup.doubleLinebreaks)]
    /\ UNCHANGED <<hvars, rvars, cvars, reader>>

MNext == ConvertFromYw \/ ConvertToYw

SpecMarkup == MInit /\ [][MNext]_vars

(***************************************************************************)
(* Claims about the markup conversions                                     *)
(***************************************************************************)
\* C16: for a scene text whose bold, italic and strikethrough spans hold text
\* that is not empty and neither starts nor ends with a space, converting it
\* for writing and converting the result for reading gives the same tokens
\* around the same text, for every span length from one character up.
C16_RoundTripReproducesSpans ==
    (markup.pc = "done" /\ markup.yw \in SpanTexts) => markup.back = markup.yw

(***************************************************************************)
(* NwxFile.read (mm2nw.py 2199-2290) and the readers of the content files. *)
(* The text of a file is a string, a line is a string without "\n".        *)
(***************************************************************************)

\* The settings the readers take from kwargs (mm2nw.py 2960-2972, 2985).
ReaderSettings ==
    [outline_status |-> {"Outline", "New", "Notes"},
     draft_status |-> {"Draft", "Started", "1st Draft"},
     first_edit_status |-> {"1st Edit", "2nd Draft"},
     second_edit_status |-> {"2nd Edit", "3rd Draft"},
     done_status |-> {"Done", "Finished"},
     major_character_status |-> {"Major", "Main"},
     character_notes_heading |-> "## Notes",
     character_goals_heading |-> "## Goals",
     character_bio_heading |-> "## Bio",
     ywriter_aka_keyword |-> "aka",
     ywriter_tag_keyword |-> "tag",
     double_linebreaks |-> TRUE]

\* sep.join(parts)
RECURSIVE str_join(_, _)
str_join(sep, parts) ==
    IF parts = <<>> THEN ""
    ELSE IF Len(parts) = 1 THEN parts[1]
    ELSE parts[1] \o sep \o str_join(sep, Tail(parts))

\* text.split(sep) for a separator of one character, from index i on; start
\* is where the current part begins.
str_split(text, i, start, sep) ==
    LET seps == {k \in i..Len(text) : SubSeq(text, k, k) = sep}
        n == Cardinality(seps)
        at == [j \in 1..n |-> CHOOSE k \in seps : Cardinality({m \in seps : m < k}) = j - 1]
    IN  [j \in 1..(n + 1) |->
            SubSeq(text, IF j = 1 THEN start ELSE at[j - 1] + 1,
                         IF j = n + 1 THEN Len(text) ELSE at[j] - 1)]

\* text.lstrip(chars) and text.rstrip(chars); str.strip() takes the white space.
RECURSIVE str_lstrip(_, _)
str_lstrip(text, chars) ==
    IF text # "" /\ SubSeq(text, 1, 1) \in chars
    THEN str_lstrip(SubSeq(text, 2, Len(text)), chars)
    ELSE text

RECURSIVE str_rstrip(_, _)
str_rstrip(text, chars) ==
    IF text # "" /\ SubSeq(text, Len(text), Len(text)) \in chars
    THEN str_rstrip(SubSeq(text, 1, Len(text) - 1), chars)
    ELSE text

str_strip(text) == str_rstrip(str_lstrip(text, {" ", "\t", "\n"}), {" ", "\t", "\n"})

\* text.lower()
RECURSIVE str_lower(_)
str_lower(text) ==
    LET upper == "ABCDEFGHIJKLMNOPQRSTUVWXYZ"
        lower == "abcdefghijklmnopqrstuvwxyz"
        c == SubSeq(text, 1, 1)
        hits == {k \in 1..26 : SubSeq(upper, k, k) = c}
    IN  IF text = "" THEN ""
        ELSE (IF hits = {} THEN c ELSE LET k == CHOOSE k \in hits : TRUE IN SubSeq(lower, k, k))
             \o str_lower(SubSeq(text, 2, Len(text)))

\* line.split(sep)[1] and line.split(sep, maxsplit=1)[1]: None stands for the
\* IndexError of a line without sep.
split_second(line, sep) ==
    LET parts == str_split(line, 1, 1, sep)
    IN  IF Len(parts) < 2 THEN None ELSE parts[2]

split_rest(line, sep) ==
    LET parts == str_split(line, 1, 1, sep)
    IN  IF Len(parts) < 2 THEN None ELSE str_join(sep, Tail(parts))

\* The text NwdFile.write puts into the file: '\n'.join of the three header
\* lines and the lines added; NwdFile.read splits it at the line breaks.
nwd_text(doc) ==
    str_join("\n", <<"%%~name: " \o doc.name,
                     "%%~path: " \o join(doc.path[1]) \o "/" \o join(doc.path[2]),
                     "%%~kind: " \o doc.kind[1] \o "/" \o doc.kind[2]>> \o doc.lines)

\* NwdFile.read: the lines of content/<handle>.nwd, or Error.
NwdFile_read(d, prjDir, handle) ==
    IF os_path_isdir(d, prjDir) /\ handle \in DOMAIN d[prjDir].docs
    THEN [raised |-> None, lines |-> str_split(nwd_text(d[prjDir].docs[handle]), 1, 1, "\n")]
    ELSE [raised |-> "Error: Can not read", lines |-> <<>>]

\* int(text) for a text of decimal digits.
RECURSIVE int(_)
int(text) ==
    IF text = "" THEN 0
    ELSE LET d == SubSeq(text, Len(text), Len(text))
         IN  10 * int(SubSeq(text, 1, Len(text) - 1))
             + (CHOOSE n \in 0..9 : ToString(n) = d)

\* statusLookup and importanceLookup as read from the entries write puts into
\* the settings element.
Lookup(ids) == [key \in {ids[x] : x \in DOMAIN ids} |-> CHOOSE x \in DOMAIN ids : ids[x] = key]

\* NwItemV15.read: the item of an item element; KeyError for a status or an
\* importance that is not in the lookups.
NwItemV15_read(node, statusLookup, importanceLookup) ==
    IF node.status # None /\ node.status \notin DOMAIN statusLookup
    THEN [raised |-> "KeyError", nwItem |-> NwItem]
    ELSE IF node.import # None /\ node.import \notin DOMAIN importanceLookup
    THEN [raised |-> "KeyError", nwItem |-> NwItem]
    ELSE [raised |-> None,
          nwItem |-> [nwName |-> node.name, nwType |-> node.type, nwClass |-> node.class,
                      nwStatus |-> IF node.status # None THEN statusLookup[node.status]
                                   ELSE None,
                      nwImportance |-> IF node.import # None
                                       THEN importanceLookup[node.import] ELSE None,
                      nwActive |-> IF node.active \in {"yes", "true", "on"}
                                   THEN "True" ELSE "False",
                      nwLayout |-> node.layout,
                      nwHandle |-> node.handle, nwOrder |-> int(node.order),
                      nwParent |-> node.parent]]

\* Character() and WorldElement() with the fields the readers set: tags is the
\* list, <<>> for None.
CharacterRead ==
    [title |-> None, desc |-> None, fullName |-> None, isMajor |-> FALSE, aka |-> None,
     tags |-> <<>>, bio |-> None, goals |-> None, notes |-> None]

WorldElementRead == [title |-> None, desc |-> None, aka |-> None, tags |-> <<>>]

\* One line of the loop over the lines of a character file (1451-1481): acc
\* holds the character, the section and the lines of the four sections.
character_line(acc, line) ==
    LET kw == ReaderSettings
        value == split_second(line, ":")
    IN  IF line = "" THEN acc
        ELSE IF StartsAt(line, 1, "%%") THEN acc
        ELSE IF StartsAt(line, 1, "#")
        THEN [acc EXCEPT !.section =
                  IF StartsAt(line, 1, kw.character_bio_heading) THEN "bio"
                  ELSE IF StartsAt(line, 1, kw.character_goals_heading) THEN "goals"
                  ELSE IF StartsAt(line, 1, kw.character_notes_heading) THEN "notes"
                  ELSE "desc"]
        ELSE IF StartsAt(line, 1, "@")
        THEN IF ~StartsAt(line, 1, "@tag") THEN acc
             ELSE IF value = None THEN [acc EXCEPT !.raised = "IndexError"]
             ELSE [acc EXCEPT !.character.title = replace(str_strip(value), "_", " ")]
        ELSE IF StartsAt(line, 1, "%")
        THEN IF StartsAt(line, 1, "%" \o kw.ywriter_aka_keyword \o ": ")
             THEN [acc EXCEPT !.character.aka = str_strip(value)]
             ELSE IF StartsAt(line, 1, "%" \o kw.ywriter_tag_keyword \o ": ")
             THEN [acc EXCEPT !.character.tags = Append(@, str_strip(value))]
             ELSE acc
        ELSE IF acc.section = "desc" THEN [acc EXCEPT !.desc = Append(@, line)]
        ELSE IF acc.section = "bio" THEN [acc EXCEPT !.bio = Append(@, line)]
        ELSE IF acc.section = "goals" THEN [acc EXCEPT !.goals = Append(@, line)]
        ELSE [acc EXCEPT !.notes = Append(@, line)]

\* The loop from line k on; the value of a step is taken before the next.
RECURSIVE character_loop(_, _, _)
character_loop(acc, lines, k) ==
    IF k > Len(lines) \/ acc.raised # None THEN acc
    ELSE CHOOSE res \in {character_loop(next, lines, k + 1) :
                             next \in {character_line(acc, lines[k])}} : TRUE

\* NwdCharacterFile.read (1436-1491): the reader's counter, the novel and the
\* exception raised.
NwdCharacterFile_read(rd, nv, nwItem, file) ==
    IF file.raised # None THEN [reader |-> rd, novel |-> nv, raised |-> file.raised]
    ELSE LET crId == ToString(rd.crCount + 1)
             start == [character |-> [CharacterRead EXCEPT !.fullName = nwItem.nwName,
                                                           !.title = nwItem.nwName],
                       section |-> "desc", desc |-> <<>>, bio |-> <<>>, goals |-> <<>>,
                       notes |-> <<>>, raised |-> None]
         IN  CHOOSE res \in
                 {IF acc.raised # None
                  THEN [reader |-> [rd EXCEPT !.crCount = @ + 1],
                        novel |-> [nv EXCEPT !.characters = SetItem(@, crId, acc.character)],
                        raised |-> acc.raised]
                  ELSE [reader |-> [rd EXCEPT !.crCount = @ + 1],
                        novel |-> [nv EXCEPT
                                       !.characters =
                                           SetItem(@, crId,
                                               [acc.character EXCEPT
                                                    !.desc = str_join("\n", acc.desc),
                                                    !.bio = str_join("\n", acc.bio),
                                                    !.goals = str_join("\n", acc.goals),
                                                    !.notes = str_join("\n", acc.notes),
                                                    !.isMajor =
                                                        nwItem.nwImportance \in
                                                        ReaderSettings.major_character_status]),
                                       !.srtCharacters = Append(@, crId)],
                        raised |-> None] :
                  acc \in {character_loop(start, file.lines, 1)}} : TRUE

\* One line of the loop over the lines of a location file and of an item file
\* (1927-1954, 2026-2053).
element_line(acc, line) ==
    LET kw == ReaderSettings
        value == split_second(line, ":")
    IN  IF line = "" THEN acc
        ELSE IF StartsAt(line, 1, "%%") THEN acc
        ELSE IF StartsAt(line, 1, "#") THEN acc
        ELSE IF StartsAt(line, 1, "%")
        THEN IF StartsAt(line, 1, "%" \o kw.ywriter_aka_keyword \o ": ")
             THEN [acc EXCEPT !.element.aka = str_strip(value)]
             ELSE IF StartsAt(line, 1, "%" \o kw.ywriter_tag_keyword \o ": ")
             THEN [acc EXCEPT !.element.tags = Append(@, str_strip(value))]
             ELSE acc
        ELSE IF StartsAt(line, 1, "@")
        THEN IF ~StartsAt(line, 1, "@tag") THEN acc
             ELSE IF value = None THEN [acc EXCEPT !.raised = "IndexError"]
             ELSE [acc EXCEPT !.element.title = replace(str_strip(value), "_", " ")]
        ELSE [acc EXCEPT !.desc = Append(@, line)]

RECURSIVE element_loop(_, _, _)
element_loop(acc, lines, k) ==
    IF k > Len(lines) \/ acc.raised # None THEN acc
    ELSE CHOOSE res \in {element_loop(next, lines, k + 1) :
                             next \in {element_line(acc, lines[k])}} : TRUE

\* What both readers do with the element: its title from the item, then the
\* lines, then desc.
element_read(nwItem, file) ==
    CHOOSE res \in
        {IF acc.raised # None THEN acc
         ELSE [acc EXCEPT !.element.desc = str_join("\n", acc.desc)] :
         acc \in {element_loop([element |-> [WorldElementRead EXCEPT
                                                 !.title = nwItem.nwName],
                                desc |-> <<>>, raised |-> None],
                               file.lines, 1)}} : TRUE

\* NwdWorldFile.read (1915-1957): lcCount gives the ID.
NwdWorldFile_read(rd, nv, nwItem, file) ==
    IF file.raised # None THEN [reader |-> rd, novel |-> nv, raised |-> file.raised]
    ELSE LET lcId == ToString(rd.lcCount + 1)
         IN  CHOOSE res \in
                 {[reader |-> [rd EXCEPT !.lcCount = @ + 1],
                   novel |-> [nv EXCEPT !.locations = SetItem(@, lcId, acc.element),
                                        !.srtLocations =
                                            IF acc.raised = None THEN Append(@, lcId) ELSE @],
                   raised |-> acc.raised] :
                  acc \in {element_read(nwItem, file)}} : TRUE

\* A reader of item files that leaves the counter as it is.
NwdObjectFile_read_no_count(rd, nv, nwItem, file) ==
    IF file.raised # None THEN [reader |-> rd, novel |-> nv, raised |-> file.raised]
    ELSE LET itId == ToString(rd.lcCount)
         IN  CHOOSE res \in
                 {[reader |-> rd,
                   novel |-> [nv EXCEPT !.items = SetItem(@, itId, acc.element),
                                        !.srtItems =
                                            IF acc.raised = None THEN Append(@, itId) ELSE @],
                   raised |-> acc.raised] :
                  acc \in {element_read(nwItem, file)}} : TRUE

\* NwdObjectFile.read (2014-2056): lcCount, not itCount, gives the ID.
NwdObjectFile_read(rd, nv, nwItem, file) ==
    IF file.raised # None THEN [reader |-> rd, novel |-> nv, raised |-> file.raised]
    ELSE LET itId == ToString(rd.lcCount + 1)
         IN  CHOOSE res \in
                 {[reader |-> [rd EXCEPT !.lcCount = @ + 1],
                   novel |-> [nv EXCEPT !.items = SetItem(@, itId, acc.element),
                                        !.srtItems =
                                            IF acc.raised = None THEN Append(@, itId) ELSE @],
                   raised |-> acc.raised] :
                  acc \in {element_read(nwItem, file)}} : TRUE

\* Scene() with the fields NwdNovelFile.read sets: appendToPrev = None is
\* FALSE, a list that is None is <<>>.
SceneRead ==
    [title |-> None, desc |-> None, status |-> NoneInt, scType |-> NoneInt,
     appendToPrev |-> FALSE, sceneContent |-> None, characters |-> <<>>,
     locations |-> <<>>, items |-> <<>>, tags |-> <<>>]

\* set_scene_content (1680-1688) with the local variables of read in acc.
set_scene_content(acc) ==
    IF acc.scId = None THEN acc
    ELSE [acc EXCEPT !.novel.scenes[acc.scId] =
              [@ EXCEPT !.sceneContent = convert_to_yw(str_join("\n", acc.contentLines),
                                                       ReaderSettings.double_linebreaks),
                        !.desc = str_join("\n", acc.synopsis),
                        !.characters = acc.characters,
                        !.locations = acc.locations,
                        !.items = acc.items,
                        !.tags = acc.tags]]

\* line.replace(tag, '').strip().replace('_', ' ')
tag_value(line, tag) == replace(str_strip(str_replace(line, 1, tag, "")), "_", " ")

\* One line of the loop of NwdNovelFile.read (1724-1812).
novel_line(acc, line, elementType, status) ==
    IF StartsAt(line, 1, "%%") THEN acc
    ELSE IF StartsAt(line, 1, "@pov: ")
    THEN [acc EXCEPT !.characters = <<tag_value(line, "@pov: ")>> \o @]
    ELSE IF StartsAt(line, 1, "@char: ")
    THEN [acc EXCEPT !.characters = Append(@, tag_value(line, "@char: "))]
    ELSE IF StartsAt(line, 1, "@location: ")
    THEN [acc EXCEPT !.locations = Append(@, tag_value(line, "@location: "))]
    ELSE IF StartsAt(line, 1, "@object: ")
    THEN [acc EXCEPT !.items = Append(@, tag_value(line, "@object: "))]
    ELSE IF StartsAt(line, 1, "@") THEN acc
    ELSE IF StartsAt(line, 1, "%")
    THEN IF StartsAt(line, 1, "%" \o ReaderSettings.ywriter_tag_keyword \o ": ")
         THEN [acc EXCEPT !.tags = Append(@, str_strip(split_rest(line, ":")))]
         ELSE LET rest == str_lstrip(str_lstrip(line, {"%"}), {" ", "\t", "\n"})
              IN  IF StartsAt(str_lower(rest), 1, "synopsis:")
                  THEN [acc EXCEPT !.synopsis = Append(@, str_strip(split_rest(rest, ":")))]
                  ELSE acc
    ELSE IF StartsAt(line, 1, "###") /\ Truthy(acc.chId)
    THEN CHOOSE res \in
             {IF split_rest(line, " ") = None THEN [set EXCEPT !.raised = "IndexError"]
              ELSE [set EXCEPT !.sceneTitle = split_rest(line, " "),
                               !.appendToPrev = StartsAt(line, 1, "####"),
                               !.inScene = TRUE] :
              set \in {[set_scene_content(acc) EXCEPT
                            !.scId = None, !.characters = <<>>, !.locations = <<>>,
                            !.items = <<>>, !.synopsis = <<>>, !.tags = <<>>]}} : TRUE
    ELSE IF StartsAt(line, 1, "#")
    THEN LET chId == ToString(acc.chCount + 1)
         IN  CHOOSE res \in
                 {IF split_rest(line, " ") = None THEN [set EXCEPT !.raised = "IndexError"]
                  ELSE [set EXCEPT
                            !.novel.chapters[chId] =
                                [@ EXCEPT !.title = split_rest(line, " "),
                                          !.chType = elementType,
                                          !.chLevel = IF StartsAt(line, 1, "##") THEN 0 ELSE 1],
                            !.novel.srtChapters = Append(@, chId),
                            !.scId = None, !.characters = <<>>, !.locations = <<>>,
                            !.items = <<>>, !.tags = <<>>,
                            !.sceneTitle = "Scene " \o ToString(acc.scCount + 1),
                            !.inScene = FALSE] :
                  set \in {[set_scene_content(acc) EXCEPT
                                !.synopsis = <<>>, !.chCount = @ + 1, !.chId = chId,
                                !.novel.chapters = SetItem(@, chId, Chapter)]}} : TRUE
    ELSE IF acc.scId = None /\ line = "" THEN acc
    ELSE IF Truthy(acc.sceneTitle) /\ acc.scId = None
    THEN LET scId == ToString(acc.scCount + 1)
             withDesc == IF acc.synopsis # <<>> /\ ~acc.inScene
                         THEN [acc EXCEPT !.novel.chapters[acc.chId].desc =
                                              str_join("\n", acc.synopsis),
                                          !.synopsis = <<>>]
                         ELSE acc
         IN  [withDesc EXCEPT
                  !.inScene = TRUE, !.scCount = @ + 1, !.scId = scId,
                  !.novel.scenes = SetItem(@, scId,
                                           [SceneRead EXCEPT !.status = status,
                                                             !.title = acc.sceneTitle,
                                                             !.scType = elementType,
                                                             !.appendToPrev = acc.appendToPrev]),
                  !.novel.chapters[acc.chId].srtScenes = Append(@, scId),
                  !.contentLines = <<line>>]
    ELSE IF acc.scId # None THEN [acc EXCEPT !.contentLines = Append(@, line)]
    ELSE acc

RECURSIVE novel_loop(_, _, _, _, _)
novel_loop(acc, lines, k, elementType, status) ==
    IF k > Len(lines) \/ acc.raised # None THEN acc
    ELSE CHOOSE res \in {novel_loop(next, lines, k + 1, elementType, status) :
                             next \in {novel_line(acc, lines[k], elementType, status)}} : TRUE

\* NwdNovelFile.read (1673-1818): chCount, chId and scCount of the reader, the
\* novel and the exception raised.
NwdNovelFile_read(rd, nv, nwItem, file) ==
    IF file.raised # None THEN [reader |-> rd, novel |-> nv, raised |-> file.raised]
    ELSE LET kw == ReaderSettings
             elementType == IF nwItem.nwLayout = "DOCUMENT" /\ nwItem.nwActive = "True" THEN 0
                            ELSE IF nwItem.nwLayout = "NOTE" THEN 1
                            ELSE 3
             status == IF nwItem.nwStatus \in kw.outline_status THEN 1
                       ELSE IF nwItem.nwStatus \in kw.draft_status THEN 2
                       ELSE IF nwItem.nwStatus \in kw.first_edit_status THEN 3
                       ELSE IF nwItem.nwStatus \in kw.second_edit_status THEN 4
                       ELSE IF nwItem.nwStatus \in kw.done_status THEN 5
                       ELSE 1
             start == [novel |-> nv, chCount |-> rd.chCount, scCount |-> rd.scCount,
                       chId |-> rd.chId, scId |-> None, characters |-> <<>>,
                       locations |-> <<>>, items |-> <<>>, synopsis |-> <<>>,
                       contentLines |-> <<>>, tags |-> <<>>, inScene |-> FALSE,
                       sceneTitle |-> None, appendToPrev |-> FALSE, raised |-> None]
         IN  CHOOSE res \in
                 {[reader |-> [rd EXCEPT !.chCount = last.chCount, !.scCount = last.scCount,
                                         !.chId = last.chId],
                   novel |-> last.novel,
                   raised |-> last.raised] :
                  last \in
                      {IF acc.raised # None THEN acc
                       ELSE IF acc.scId # None THEN set_scene_content(acc)
                       ELSE IF acc.synopsis = <<>> THEN acc
                       ELSE IF acc.chId = None THEN [acc EXCEPT !.raised = "KeyError"]
                       ELSE [acc EXCEPT !.novel.chapters[acc.chId].desc =
                                            str_join("\n", acc.synopsis)] :
                       acc \in {novel_loop(start, file.lines, 1, elementType, status)}}} : TRUE

NWX_TAG == "novelWriterXML"

TRAILER == {"ARCHIVE", "TRASH"}

\* What ET.parse finds in a project file write has written: the root tag and
\* its fileVersion, the project metadata (name and title are the same text;
\* the one author element of a novel without authorName is empty), the
\* entries of the settings, and the item elements.
ParsedProject(nwxFile) ==
    [xml |-> TRUE, tag |-> NWX_TAG, fileVersion |-> "1.5",
     title |-> nwxFile.title, name |-> nwxFile.title, authors |-> <<"">>,
     status |-> Lookup(STATUS_IDS), importance |-> Lookup(IMPORTANCE_IDS),
     items |-> nwxFile.content]

\* The project files read: the one written, the same with another root tag,
\* with another or no fileVersion attribute, and a file that is not XML.
ProjectFiles(nwxFile) ==
    LET parsed == ParsedProject(nwxFile)
    IN  {parsed,
         [parsed EXCEPT !.fileVersion = "1.4"],
         [parsed EXCEPT !.fileVersion = None],
         [parsed EXCEPT !.tag = "map"],
         [parsed EXCEPT !.tag = "map", !.fileVersion = "1.4"],
         [parsed EXCEPT !.xml = FALSE]}

\* A test of the root tag alone.
check_file_tag(root) ==
    IF root.tag # NWX_TAG
    THEN "Error: This seems not to bee a novelWriter project file."
    ELSE None

\* The test of the file type and version (2210-2215): the Error raised, or None.
check_file(root) ==
    IF root.tag # NWX_TAG
    THEN "Error: This seems not to bee a novelWriter project file."
    ELSE IF root.fileVersion # "1.5" THEN "Error: Wrong file version (must be 1.5)."
    ELSE None

\* The title -> ID dictionaries (2261-2269): a later entity takes the title of
\* an earlier one.
IdsByTitle(elements, srt) ==
    [title \in {elements[id].title : id \in Range(srt)} |->
        srt[CHOOSE k \in DOMAIN srt :
                /\ elements[srt[k]].title = title
                /\ \A j \in DOMAIN srt : elements[srt[j]].title = title => j <= k]]

\* [byTitle[x] for x in titles], None for a KeyError.
ids_of(titles, byTitle) ==
    IF \E k \in DOMAIN titles : titles[k] \notin DOMAIN byTitle THEN None
    ELSE [k \in DOMAIN titles |-> byTitle[titles[k]]]

\* One scene of the loop that replaces the titles in the scenes by IDs
\* (2272-2285).
fix_scene(nv, scId) ==
    LET characters == ids_of(nv.scenes[scId].characters,
                             IdsByTitle(nv.characters, nv.srtCharacters))
        locations == ids_of(nv.scenes[scId].locations,
                            IdsByTitle(nv.locations, nv.srtLocations))
        items == ids_of(nv.scenes[scId].items, IdsByTitle(nv.items, nv.srtItems))
    IN  IF characters = None THEN [novel |-> nv, raised |-> "KeyError"]
        ELSE IF locations = None
        THEN [novel |-> [nv EXCEPT !.scenes[scId].characters = characters],
              raised |-> "KeyError"]
        ELSE IF items = None
        THEN [novel |-> [nv EXCEPT !.scenes[scId].characters = characters,
                                   !.scenes[scId].locations = locations],
              raised |-> "KeyError"]
        ELSE [novel |-> [nv EXCEPT !.scenes[scId].characters = characters,
                                   !.scenes[scId].locations = locations,
                                   !.scenes[scId].items = items],
              raised |-> None]

\* The loop from the n-th scene read on.
RECURSIVE fix_references(_, _, _)
fix_references(res, n, last) ==
    IF n > last \/ res.raised # None THEN res
    ELSE CHOOSE fixed \in {fix_references(next, n + 1, last) :
                               next \in {fix_scene(res.novel, ToString(n))}} : TRUE

\* nwdFile = self._NWD_CLASSES[nwItem.nwClass](self, nwItem); nwdFile.read()
nwd_read(rd, nwItem, file) ==
    CASE nwItem.nwClass = "CHARACTER" -> NwdCharacterFile_read(rd, rd.novel, nwItem, file)
      [] nwItem.nwClass = "WORLD" -> NwdWorldFile_read(rd, rd.novel, nwItem, file)
      [] nwItem.nwClass = "OBJECT" -> NwdObjectFile_read(rd, rd.novel, nwItem, file)
      [] nwItem.nwClass = "NOVEL" -> NwdNovelFile_read(rd, rd.novel, nwItem, file)
      [] OTHER -> [reader |-> rd, novel |-> rd.novel, raised |-> "KeyError"]

\* The reader that has raised or returned.
Raise(rd, raised) == [rd EXCEPT !.pc = "done", !.raised = raised]

\* A NwxFile is made for the project file written, with a new Novel.
NwxOpen ==
    /\ pc = "finally"
    /\ exc = None
    /\ reader.pc = "idle"
    /\ \E file \in ProjectFiles(dirs[PrjDir(sourcePath)].nwx[1]) :
        reader' = [NwxIdle EXCEPT !.pc = "start", !.file = <<file>>]
    /\ UNCHANGED <<hvars, rvars, cvars, markup>>

\* Lines 2205-2236: the tree, the tests of the root, the lookups, the title
\* and the authors.
NwxReadBegin ==
    /\ reader.pc = "start"
    /\ LET root == reader.file[1]
           authors == SelectSeq(root.authors, LAMBDA a : Truthy(a))
       IN  reader' =
               IF ~root.xml THEN Raise(reader, "Error: Can not process")
               ELSE IF check_file(root) # None
               THEN Raise([reader EXCEPT !.tree = <<root>>], check_file(root))
               ELSE [reader EXCEPT !.tree = <<root>>,
                                   !.statusLookup = root.status,
                                   !.importanceLookup = root.importance,
                                   !.novel.title = IF root.title # None THEN root.title
                                                   ELSE IF root.name # None THEN root.name
                                                   ELSE @,
                                   !.novel.authorName = str_join(", ", authors),
                                   !.pc = "loop", !.pos = 1]
    /\ UNCHANGED <<hvars, rvars, cvars, markup>>

\* Lines 2245-2258: one item element of the loop.
NwxReadItem ==
    /\ reader.pc = "loop"
    /\ reader.pos <= Len(reader.tree[1].items)
    /\ \E item \in {NwItemV15_read(reader.tree[1].items[reader.pos], reader.statusLookup,
                                   reader.importanceLookup)} :
       \E added \in {add_member(nwHandles["B"], item.nwItem.nwHandle)} :
        IF item.raised # None
        THEN /\ reader' = Raise(reader, item.raised)
             /\ UNCHANGED nwHandles
        ELSE IF ~added.ret
        THEN /\ reader' = Raise(reader, "Error: Invalid handle")
             /\ UNCHANGED nwHandles
        ELSE /\ nwHandles' = [nwHandles EXCEPT !["B"] = added.handles]
             /\ IF item.nwItem.nwClass \in TRAILER
                THEN reader' = [reader EXCEPT !.pc = "refs"]
                ELSE IF item.nwItem.nwType # "FILE"
                THEN reader' = [reader EXCEPT !.pos = @ + 1]
                ELSE \E file \in {NwdFile_read(dirs, PrjDir(sourcePath),
                                                 item.nwItem.nwHandle)} :
                     \E r \in {nwd_read(reader, item.nwItem, file)} :
                        reader' = IF r.raised # None
                                  THEN Raise([r.reader EXCEPT !.novel = r.novel], r.raised)
                                  ELSE [r.reader EXCEPT !.novel = r.novel, !.pos = @ + 1]
    /\ UNCHANGED <<kdf, calls, lastCall, rvars, cvars, markup>>

\* Lines 2260-2290: the references of the scenes, and the message returned.
NwxReadEnd ==
    /\ \/ reader.pc = "refs"
       \/ reader.pc = "loop" /\ reader.pos > Len(reader.tree[1].items)
    /\ \E r \in {fix_references([novel |-> reader.novel, raised |-> None], 1,
                                Cardinality(DOMAIN reader.novel.scenes))} :
        reader' = IF r.raised # None THEN Raise([reader EXCEPT !.novel = r.novel], r.raised)
                  ELSE [reader EXCEPT !.novel = r.novel, !.pc = "done",
                                      !.ret = "novelWriter data converted to novel structure."]
    /\ UNCHANGED <<hvars, rvars, cvars, markup>>

NNext ==
    \/ WriteNovelFolder
    \/ WriteFolder
    \/ WriteHeading
    \/ WriteScene
    \/ WriteChapterEnd
    \/ WriteCharacterFolder
    \/ WriteCharacter
    \/ WriteWorldFolder
    \/ WriteLocation
    \/ WriteObjectFolder
    \/ WriteObject
    \/ WriteProjectFile
    \/ NwxOpen
    \/ NwxReadBegin
    \/ NwxReadItem
    \/ NwxReadEnd

SpecNwx == WInit /\ [][NNext]_vars

(***************************************************************************)
(* NwxFile.read of a project as novelWriter leaves it after editing: the   *)
(* content file of a character has sections, and the location files and    *)
(* the item files come in any order.                                       *)
(***************************************************************************)

\* Bounds: the lines after the tag of a character file, and the location and
\* item files of a project.
MaxLines == 3

MaxFiles == 4

\* The handle of the k-th item of an edited project, k < 10.
HandleOf(k) == [i \in 1..SIZE |-> IF i = SIZE THEN ToString(k) ELSE "0"]

EditedRoot(k, class, name) ==
    [root_folder(<<k>>, name, class, "None") EXCEPT !.nwHandle = HandleOf(k)]

EditedItem(k, class, name, parent) ==
    [NwItem EXCEPT !.nwHandle = HandleOf(k), !.nwOrder = k, !.nwParent = parent,
                   !.nwName = name, !.nwType = "FILE", !.nwClass = class,
                   !.nwStatus = "None",
                   !.nwImportance = IF class = "CHARACTER" THEN "Major" ELSE "None",
                   !.nwActive = "True", !.nwLayout = "NOTE"]

\* The project file with the given items, and the content files.
EditedProject(items, docs) ==
    [nwx |-> [title |-> "Demo", count |-> ToString(Len(items)),
              content |-> [k \in DOMAIN items |-> NwItemV15_write(items[k])]],
     docs |-> docs]

\* The lines of a character file: the three headings of the settings, another
\* heading, and lines of text.
CharacterLines == {"## Bio", "## Goals", "## Notes", "## Other", "a", "b"}

\* A project with one character whose file has the given lines after the tag.
CharacterProject(body) ==
    LET item == EditedItem(1, "CHARACTER", "Ann", HandleOf(0))
    IN  EditedProject(<<EditedRoot(0, "CHARACTER", "Characters"), item>>,
                      SetItem(EmptyDict, HandleOf(1),
                              NwdFile_write(item, <<"# Ann\n", "@tag: Ann">> \o body)))

\* A project with files of the given classes (WORLD, OBJECT), in this order.
WorldProject(classes) ==
    LET file(k) == EditedItem(k + 1, classes[k], "E" \o ToString(k),
                              HandleOf(IF classes[k] = "WORLD" THEN 0 ELSE 1))
    IN  EditedProject(<<EditedRoot(0, "WORLD", "Locations"), EditedRoot(1, "OBJECT", "Items")>>
                          \o [k \in DOMAIN classes |-> file(k)],
                      [h \in {HandleOf(k + 1) : k \in DOMAIN classes} |->
                          LET k == CHOOSE k \in DOMAIN classes : HandleOf(k + 1) = h
                          IN  NwdFile_write(file(k),
                                            <<"# E" \o ToString(k) \o "\n",
                                              "@tag: E" \o ToString(k),
                                              "\nDesc " \o ToString(k)>>)])

EditedProjects ==
    {CharacterProject(body) :
        body \in UNION {[1..n -> CharacterLines] : n \in 0..MaxLines}}
    \cup {WorldProject(classes) :
        classes \in UNION {[1..n -> {"WORLD", "OBJECT"}] : n \in 0..MaxFiles}}

\* A NwxFile is made for the project file of an edited project, with a new
\* Novel.
EInit ==
    /\ HIdle
    /\ RIdle
    /\ sourcePath = [name |-> "Demo", ext |-> ".mm", isfile |-> TRUE]
    /\ \E p \in EditedProjects :
        /\ dirs = SetItem(EmptyDict, PrjDir(sourcePath), Dir(TRUE, <<p.nwx>>, p.docs, FALSE))
        /\ reader = [NwxIdle EXCEPT !.pc = "start", !.file = <<ParsedProject(p.nwx)>>]
    /\ dirs0 = EmptyDict
    /\ cwdLock = FALSE
    /\ ui = [class |-> "Ui", answer |-> TRUE]
    /\ uiLog = <<>>
    /\ ioLog = <<>>
    /\ newFile = None
    /\ exc = None
    /\ pc = "idle"
    /\ runs = 0
    /\ outcomes = <<>>
    /\ w = WriteIdle
    /\ markup = MarkupIdle

ENext == NwxReadBegin \/ NwxReadItem \/ NwxReadEnd

SpecContent == EInit /\ [][ENext]_vars

(***************************************************************************)
(* Claims about NwxFile.read                                               *)
(***************************************************************************)
\* The counters of the reader.
Counters(rd) == <<rd.lcCount, rd.crCount, rd.itCount, rd.scCount, rd.chCount, rd.chId>>

WrongFile(root) == root.xml /\ (root.tag # NWX_TAG \/ root.fileVersion # "1.5")

IsError(raised) == StartsAt(raised, 1, "Error: ")

FirstIds(n) == [k \in 1..n |-> ToString(k)]

\* The scene IDs of all chapters, in the order of srtChapters.
RECURSIVE AllScenes(_)
AllScenes(chIds) ==
    IF chIds = <<>> THEN <<>>
    ELSE novel.chapters[Head(chIds)].srtScenes \o AllScenes(Tail(chIds))

\* C18: at every step of MmFile.read and when it has returned, the IDs in
\* srtChapters, srtCharacters, srtLocations and srtItems are keys of chapters,
\* characters, locations and items, the IDs in the srtScenes of the chapters are
\* keys of scenes, no ID is listed twice, and the k-th entity created in a map
\* has the ID str(k), the lowest positive integer not used before it.
C18_IdsAreKeysAndLowestUnused ==
    /\ Range(novel.srtChapters) \subseteq DOMAIN novel.chapters
    /\ Range(novel.srtCharacters) \subseteq DOMAIN novel.characters
    /\ Range(novel.srtLocations) \subseteq DOMAIN novel.locations
    /\ Range(novel.srtItems) \subseteq DOMAIN novel.items
    /\ \A chId \in DOMAIN novel.chapters :
        Range(novel.chapters[chId].srtScenes) \subseteq DOMAIN novel.scenes
    /\ novel.srtChapters = FirstIds(Cardinality(DOMAIN novel.chapters))
    /\ novel.srtCharacters = FirstIds(Cardinality(DOMAIN novel.characters))
    /\ novel.srtLocations = FirstIds(Cardinality(DOMAIN novel.locations))
    /\ novel.srtItems = FirstIds(Cardinality(DOMAIN novel.items))
    /\ AllScenes(novel.srtChapters) = FirstIds(Cardinality(DOMAIN novel.scenes))

\* C18 witness: read is in its loop, after a part with two chapters of two
\* scenes and before a group of characters.
C18_Witness ==
    /\ rpc = "loop"
    /\ rpos = 2
    /\ Len(Head(mm.node).node) = 2
    /\ Len(novel.srtChapters) = 3
    /\ Cardinality(DOMAIN novel.scenes) = 4
    /\ kwargs.main_characters_icon \in Range(Head(mm.node).node[2].icon)

\* The group of a node by the priority of the groups: major characters, minor
\* characters, locations, items.
PriorityGroup(kw, icons) ==
    IF kw.main_characters_icon \in Range(icons) THEN "isMainCharactersNode"
    ELSE IF kw.minor_characters_icon \in Range(icons) THEN "isMinorCharactersNode"
    ELSE IF kw.locations_icon \in Range(icons) THEN "isLocationsNode"
    ELSE IF kw.items_icon \in Range(icons) THEN "isItemsNode"
    ELSE "none"

\* The entities a step has added to a list of IDs.
Added(before, after) == SubSeq(after, Len(before) + 1, Len(after))

\* C19: a top-level node that carries the major-character icon is read as the
\* group of the major characters whatever other icons it carries and in
\* whatever order; failing that the minor-character icon decides, then the
\* locations icon, then the items icon: the children of the node become the
\* entities of that group.
C19_GroupByPriority ==
    [][(rpc = "loop" /\ rpos' = rpos + 1)
       => LET xmlNode == Head(mm.node).node[rpos]
              group == PriorityGroup(kwargs, xmlNode.icon)
              n == Len(xmlNode.node)
              characters == Added(novel.srtCharacters, novel'.srtCharacters)
          IN  /\ (group = "isMainCharactersNode" /\ kwargs.export_characters)
                     => /\ Len(characters) = n
                        /\ \A k \in DOMAIN characters :
                               novel'.characters[characters[k]].isMajor
              /\ (group = "isMinorCharactersNode" /\ kwargs.export_characters)
                     => /\ Len(characters) = n
                        /\ \A k \in DOMAIN characters :
                               ~novel'.characters[characters[k]].isMajor
              /\ (group = "isLocationsNode" /\ kwargs.export_locations)
                     => Len(Added(novel.srtLocations, novel'.srtLocations)) = n
              /\ (group = "isItemsNode" /\ kwargs.export_items)
                     => Len(Added(novel.srtItems, novel'.srtItems)) = n]_vars

\* A part node: a top-level node that carries none of the four group icons.
IsPartNode(kw, xmlNode) == PriorityGroup(kw, xmlNode.icon) = "none"

\* The type the icons of a node stand for: Notes 1, Todo 2, else Normal 0.
OwnType(kw, xmlNode) ==
    IF kw.notes_icon \in Range(xmlNode.icon) THEN 1
    ELSE IF kw.todo_icon \in Range(xmlNode.icon) THEN 2
    ELSE 0

\* C20: reading a top-level part node adds a chapter entry of level 1 if and
\* only if normal-parts mode is on or the node carries the Notes or the Todo
\* icon; the entry comes before the chapters of the node, has the type of the
\* node, and no part ever owns a scene; when no entry is added the children
\* are read under a part type of Normal, so each chapter gets the type of its
\* own icons.
C20_PartEntryIffNormalPartsOrTyped ==
    [][(rpc = "loop" /\ rpos' = rpos + 1 /\ kwargs.export_scenes
            /\ IsPartNode(kwargs, Head(mm.node).node[rpos]))
       => LET xmlNode == Head(mm.node).node[rpos]
              new == Added(novel.srtChapters, novel'.srtChapters)
              parts == {k \in DOMAIN new : novel'.chapters[new[k]].chLevel = 1}
          IN  /\ (parts # {}) <=> (kwargs.has_normal_parts \/ OwnType(kwargs, xmlNode) # 0)
              /\ parts \subseteq {1}
              /\ Len(new) = Len(xmlNode.node) + Cardinality(parts)
              /\ \A k \in parts : novel'.chapters[new[k]].chType = OwnType(kwargs, xmlNode)
              /\ \A chId \in DOMAIN novel'.chapters :
                     novel'.chapters[chId].chLevel = 1
                         => novel'.chapters[chId].srtScenes = <<>>
              /\ parts = {}
                     => \A k \in DOMAIN new :
                            novel'.chapters[new[k]].chType = OwnType(kwargs, xmlNode.node[k])]_vars

\* C20 witness: with normal-parts mode off, a part node with the Notes icon
\* and chapters with scenes has given a part entry of type Notes without
\* scenes, and a part node without icon has given two chapters and no part
\* entry, the second chapter of type Notes from its own icon.
C20_Witness ==
    /\ rpc = "loop"
    /\ rpos = 3
    /\ ~kwargs.has_normal_parts
    /\ kwargs.export_scenes
    /\ Head(mm.node).node[1].icon = <<kwargs.notes_icon>>
    /\ Len(Head(mm.node).node[1].node) = 1
    /\ Head(mm.node).node[2].icon = <<>>
    /\ Len(Head(mm.node).node[2].node) = 2
    /\ Len(novel.srtChapters) = 4
    /\ novel.chapters["1"].chLevel = 1
    /\ novel.chapters["1"].chType = 1
    /\ novel.chapters["1"].srtScenes = <<>>
    /\ novel.chapters["2"].srtScenes # <<>>
    /\ novel.chapters["3"].chLevel = 0
    /\ novel.chapters["3"].chType = 0
    /\ novel.chapters["4"].chLevel = 0
    /\ novel.chapters["4"].chType = 1

(***************************************************************************)
(* Claims about the types the elements get from MmFile.read                *)
(***************************************************************************)
\* The type an element has by inheritance: the type of the element above it
\* if that is Notes or Todo, else the type of its own icons.
Inherited(kw, above, xmlNode) == IF above # 0 THEN above ELSE OwnType(kw, xmlNode)

\* C21: when MmFile.read has read a part node, every chapter of that node has
\* the type of the part node if that is Notes or Todo and else the type of
\* its own icon, and every scene of the chapter has the type of the chapter
\* if that is not Normal and else the type of its own icon (Notes icon 1,
\* Todo icon 2, none 0); and in every chapter of the novel whose type is not
\* Normal all scenes have the type of the chapter.
C21_TypesAreInherited ==
    [][(rpc = "loop" /\ rpos' = rpos + 1 /\ kwargs.export_scenes
            /\ IsPartNode(kwargs, Head(mm.node).node[rpos]))
       => LET xmlNode == Head(mm.node).node[rpos]
              new == Added(novel.srtChapters, novel'.srtChapters)
              off == Len(new) - Len(xmlNode.node)
              partType == OwnType(kwargs, xmlNode)
          IN  /\ off \in {0, 1}
              /\ \A j \in DOMAIN xmlNode.node :
                    LET xmlChapter == xmlNode.node[j]
                        ch == novel'.chapters[new[j + off]]
                        chType == Inherited(kwargs, partType, xmlChapter)
                    IN  /\ ch.chType = chType
                        /\ Len(ch.srtScenes) = Len(xmlChapter.node)
                        /\ \A k \in DOMAIN xmlChapter.node :
                               novel'.scenes[ch.srtScenes[k]].scType
                                   = Inherited(kwargs, chType, xmlChapter.node[k])
              /\ \A chId \in DOMAIN novel'.chapters :
                     novel'.chapters[chId].chType # 0
                         => \A k \in DOMAIN novel'.chapters[chId].srtScenes :
                                novel'.scenes[novel'.chapters[chId].srtScenes[k]].scType
                                    = novel'.chapters[chId].chType]_vars

\* C21 witness: read has returned; under a Todo part the chapter with the Notes
\* icon and its scenes have the type Todo, and under a part without icon the
\* chapter without icon is Normal with a scene of type Todo from its own icon
\* and a Normal scene, and the chapter with the Notes icon has two Notes scenes.
C21_Witness ==
    /\ rpc = "done"
    /\ ~kwargs.has_normal_parts
    /\ kwargs.export_scenes
    /\ mm.wellformed
    /\ mm.node # <<>>
    /\ Len(Head(mm.node).node) = 2
    /\ Head(mm.node).node[1].icon = <<kwargs.todo_icon>>
    /\ Head(mm.node).node[2].icon = <<>>
    /\ Len(novel.srtChapters) = 5
    /\ novel.chapters["1"].chLevel = 1
    /\ novel.chapters["3"].chType = 2
    /\ Len(novel.chapters["3"].srtScenes) = 2
    /\ \A k \in 1..2 : novel.scenes[novel.chapters["3"].srtScenes[k]].scType = 2
    /\ novel.chapters["4"].chType = 0
    /\ novel.scenes[novel.chapters["4"].srtScenes[1]].scType = 2
    /\ novel.scenes[novel.chapters["4"].srtScenes[2]].scType = 0
    /\ novel.chapters["5"].chType = 1
    /\ \A k \in 1..2 : novel.scenes[novel.chapters["5"].srtScenes[k]].scType = 1

(***************************************************************************)
(* Claims about the project tree and the order of the writes               *)
(***************************************************************************)
\* C22 as claimed: when write has returned for a novel without a chapter of
\* level 1, every chapter is a FILE entry whose parent is the NOVEL root, and
\* the project tree has no FOLDER entry.
C22_ChaptersDirectlyUnderRoot ==
    (WriteReturned /\ \A chId \in DOMAIN novel.chapters : novel.chapters[chId].chLevel # 1)
        => /\ \A k \in DOMAIN w.content : w.content[k].type # "FOLDER"
           /\ \A n \in DOMAIN novel.srtChapters :
                \E k \in DOMAIN w.content :
                    /\ w.content[k].type = "FILE"
                    /\ w.content[k].class = "NOVEL"
                    /\ w.content[k].name = novel.chapters[novel.srtChapters[n]].title
                    /\ w.content[k].parent = w.novelFolderHandle

\* C23 as claimed: a step of write that adds a FILE entry to the project tree
\* and raises nothing writes exactly one file, the content file of that
\* entry, before the next entry is made; a step that adds a ROOT or a FOLDER
\* entry writes no file; and the only other write is that of the project
\* file, with which write ends.
C23_OneWritePerFileEntryThenIndex ==
    [][pc = "write"
       => LET entries == Added(w.content, w'.content)
              writes == Added(ioLog, ioLog')
          IN  /\ Len(entries) <= 1
              /\ (Len(entries) = 1 /\ entries[1].type = "FILE" /\ exc' = None)
                    => writes = <<IO("write", PrjDir(sourcePath) \o CONTENT_DIR
                                               \o join(entries[1].handle) \o ".nwd")>>
              /\ (Len(entries) = 1 /\ entries[1].type # "FILE") => writes = <<>>
              /\ entries = <<>>
                    => \/ writes = <<>>
                       \/ /\ writes = <<IO("write", TargetFile(sourcePath))>>
                          /\ w'.phase = "done"
                          /\ pc' = "finally"]_vars

(***************************************************************************)
(* Claims about the readers of the content files                           *)
(***************************************************************************)
\* The item element NwxFile.read is about to read, and the lines of its
\* content file.
ItemRead == reader.tree[1].items[reader.pos]

LinesRead == NwdFile_read(dirs, PrjDir(sourcePath), ItemRead.handle).lines

\* A content file of the given class was read and the loop goes on.
FileWasRead(class) ==
    /\ reader.pc = "loop"
    /\ reader.pos <= Len(reader.tree[1].items)
    /\ ItemRead.type = "FILE"
    /\ ItemRead.class = class
    /\ reader'.pc = "loop"
    /\ reader'.pos = reader.pos + 1

\* The text of a synopsis line ("% synopsis: text"), None for any other line.
SynopsisText(line) ==
    IF StartsAt(line, 1, "%") /\ ~StartsAt(line, 1, "%%")
    THEN LET rest == str_lstrip(str_lstrip(line, {"%"}), {" ", "\t", "\n"})
         IN  IF StartsAt(str_lower(rest), 1, "synopsis:")
             THEN str_strip(split_rest(rest, ":")) ELSE None
    ELSE None

\* The heading line a line s belongs to: the last heading line before it with
\* no body line between, 0 if there is none.
HeadingOf(lines, s) ==
    LET heads == {h \in 1..(s - 1) :
                     /\ StartsAt(lines[h], 1, "#")
                     /\ \A k \in (h + 1)..(s - 1) :
                            lines[k] = "" \/ StartsAt(lines[k], 1, "%")
                                \/ StartsAt(lines[k], 1, "@")}
    IN  IF heads = {} THEN 0 ELSE CHOOSE h \in heads : \A g \in heads : g <= h

\* C24 as claimed: when NwdNovelFile.read has read a file, a synopsis line
\* that follows a part or chapter heading before any scene is the description
\* of the chapter of that heading, and a synopsis line that follows a scene
\* heading is the description of a scene made for that heading and leaves the
\* description of the chapter as it was.
C24_SynopsisGoesToItsElement ==
    [][FileWasRead("NOVEL")
       => \A lines \in {LinesRead} : \A s \in DOMAIN lines :
            \A text \in {SynopsisText(lines[s])} : \A h \in {HeadingOf(lines, s)} :
                (text # None /\ h # 0)
                => IF StartsAt(lines[h], 1, "###") /\ Truthy(reader.chId)
                   THEN /\ \E scId \in DOMAIN reader'.novel.scenes
                                         \ DOMAIN reader.novel.scenes :
                               reader'.novel.scenes[scId].desc = text
                        /\ reader'.novel.chapters[reader.chId].desc
                               = reader.novel.chapters[reader.chId].desc
                   ELSE reader'.novel.chapters[reader'.chId].desc = text]_vars

\* The section a heading line of a character file begins, None for a heading
\* that is none of the three headings of the settings.
SectionOf(line) ==
    IF StartsAt(line, 1, ReaderSettings.character_bio_heading) THEN "bio"
    ELSE IF StartsAt(line, 1, ReaderSettings.character_goals_heading) THEN "goals"
    ELSE IF StartsAt(line, 1, ReaderSettings.character_notes_heading) THEN "notes"
    ELSE None

\* The body lines from line k on that belong to the section wanted when a
\* section lasts until the next heading that begins a section.
RECURSIVE Sticky(_, _, _, _)
Sticky(lines, k, section, wanted) ==
    IF k > Len(lines) THEN <<>>
    ELSE IF StartsAt(lines[k], 1, "#")
    THEN Sticky(lines, k + 1,
                IF SectionOf(lines[k]) # None THEN SectionOf(lines[k]) ELSE section, wanted)
    ELSE IF lines[k] = "" \/ StartsAt(lines[k], 1, "%") \/ StartsAt(lines[k], 1, "@")
    THEN Sticky(lines, k + 1, section, wanted)
    ELSE (IF section = wanted THEN <<lines[k]>> ELSE <<>>)
         \o Sticky(lines, k + 1, section, wanted)

\* C25 as claimed: when NwdCharacterFile.read has read a file, the bio, the
\* goals and the notes of the character are the body lines that follow the
\* bio, goals and notes heading up to the next of these three headings; a
\* heading that is none of the three leaves the section as it is.
C25_SectionsAreSticky ==
    [][FileWasRead("CHARACTER")
       => \A lines \in {LinesRead} :
          \A cr \in {reader'.novel.characters[ToString(reader'.crCount)]} :
            /\ cr.bio = str_join("\n", Sticky(lines, 1, "desc", "bio"))
            /\ cr.goals = str_join("\n", Sticky(lines, 1, "desc", "goals"))
            /\ cr.notes = str_join("\n", Sticky(lines, 1, "desc", "notes"))]_vars

\* The map and the list of IDs have got one new entity: an ID that was not in
\* the map, appended to the list, with all other entities as they were.
OneMore(map, list, mapAfter, listAfter) ==
    \E id \in DOMAIN mapAfter \ DOMAIN map :
        /\ DOMAIN mapAfter = DOMAIN map \cup {id}
        /\ \A x \in DOMAIN map : mapAfter[x] = map[x]
        /\ listAfter = Append(list, id)

\* The files of the class among the first n items of the project file.
FilesOf(class, n) ==
    {k \in 1..n : reader.tree[1].items[k].type = "FILE"
                  /\ reader.tree[1].items[k].class = class}

\* C26: every location file read adds one location under an ID that was not
\* in novel.locations and leaves the items alone, every item file read adds
\* one item under an ID that was not in novel.items and leaves the locations
\* alone, in whatever order the files come; so after L location files and I
\* item files srtLocations has L and srtItems has I different IDs, each a key
\* of its map.
C26_OneEntryPerElementFile ==
    [][(FileWasRead("WORLD") \/ FileWasRead("OBJECT"))
       => LET old == reader.novel
              new == reader'.novel
          IN  /\ IF ItemRead.class = "WORLD"
                 THEN /\ OneMore(old.locations, old.srtLocations,
                                 new.locations, new.srtLocations)
                      /\ new.items = old.items
                      /\ new.srtItems = old.srtItems
                 ELSE /\ OneMore(old.items, old.srtItems, new.items, new.srtItems)
                      /\ new.locations = old.locations
                      /\ new.srtLocations = old.srtLocations
              /\ Len(new.srtLocations) = Cardinality(FilesOf("WORLD", reader.pos))
              /\ Len(new.srtItems) = Cardinality(FilesOf("OBJECT", reader.pos))
              /\ Cardinality(DOMAIN new.locations) = Len(new.srtLocations)
              /\ Cardinality(DOMAIN new.items) = Len(new.srtItems)
              /\ Range(new.srtLocations) = DOMAIN new.locations
              /\ Range(new.srtItems) = DOMAIN new.items]_vars

\* C26 witness: read has returned for a project with a location file, an item
\* file, a location file and an item file, in this order; the shared counter
\* gave the locations the IDs 1 and 3 and the items the IDs 2 and 4.
C26_Witness ==
    /\ reader.pc = "done"
    /\ reader.raised = None
    /\ reader.lcCount = 4
    /\ reader.novel.srtLocations = <<"1", "3">>
    /\ reader.novel.srtItems = <<"2", "4">>
    /\ DOMAIN reader.novel.locations = {"1", "3"}
    /\ DOMAIN reader.novel.items = {"2", "4"}

(***************************************************************************)
(* Claims about writing a project and reading it back                      *)
(***************************************************************************)
\* A description as a text: None and the empty text are no description.
DescOf(desc) == IF Truthy(desc) THEN desc ELSE ""

\* C27 as claimed: when NwxFile.read has returned for the project NwxFile.write
\* made from a novel, the novel read has the chapters of the novel written in
\* the same order, with the same titles, levels and descriptions, and every
\* chapter has as many scenes as the chapter written, with the same titles
\* and descriptions.
C27_WriteReadKeepsChaptersAndScenes ==
    (reader.pc = "done" /\ reader.raised = None)
        => LET written == novel
               read == reader.novel
           IN  /\ Len(read.srtChapters) = Len(written.srtChapters)
               /\ \A n \in DOMAIN written.srtChapters :
                    LET a == written.chapters[written.srtChapters[n]]
                        b == read.chapters[read.srtChapters[n]]
                    IN  /\ b.title = a.title
                        /\ b.chLevel = a.chLevel
                        /\ DescOf(b.desc) = DescOf(a.desc)
                        /\ Len(b.srtScenes) = Len(a.srtScenes)
                        /\ \A k \in DOMAIN a.srtScenes :
                            /\ read.scenes[b.srtScenes[k]].title
                                   = written.scenes[a.srtScenes[k]].title
                            /\ DescOf(read.scenes[b.srtScenes[k]].desc)
                                   = DescOf(written.scenes[a.srtScenes[k]].desc)

\* For every chapter of the novel MmFile.read makes from the top-level nodes
\* from the i-th on, in the order of srtChapters: the top-level node it comes
\* from, and whether it is the part entry of that node.
RECURSIVE NodeOfChapter(_)
NodeOfChapter(i) ==
    LET tops == Head(mm.node).node IN
    IF i > Len(tops) THEN <<>>
    ELSE (IF IsPartNode(kwargs, tops[i]) /\ kwargs.export_scenes
          THEN (IF kwargs.has_normal_parts \/ OwnType(kwargs, tops[i]) # 0
                THEN <<[top |-> i, entry |-> TRUE]>> ELSE <<>>)
               \o [j \in DOMAIN tops[i].node |-> [top |-> i, entry |-> FALSE]]
          ELSE <<>>)
         \o NodeOfChapter(i + 1)

\* C28 as claimed: when write has returned for the novel read from a mindmap,
\* the folder of a chapter has the folder of a part as parent if the node of
\* the chapter is a child of the node of that part, and else the NOVEL root.
C28_ChapterFolderUnderItsOwnPart ==
    WriteReturned =>
        LET folders == SelectSeq(w.content, LAMBDA e : e.type = "FOLDER")
            nodes == NodeOfChapter(1)
        IN  /\ Len(nodes) = Len(folders)
            /\ \A n \in DOMAIN nodes :
                 ~nodes[n].entry =>
                    LET parts == {m \in 1..(n - 1) :
                                     nodes[m].entry /\ nodes[m].top = nodes[n].top}
                    IN  IF parts = {} THEN folders[n].parent = w.novelFolderHandle
                        ELSE \A m \in parts : folders[n].parent = folders[m].handle

(***************************************************************************)
(* Claims about the lock file and the export options                       *)
(***************************************************************************)
\* C29 as claimed: a run for a mindmap whose project directory held the file
\* nwProject.lock when the run began ends with the failure message "Please
\* exit novelWriter." and has made no directory, renamed nothing and written
\* nothing: the file system is as it was.
C29_LockedProjectIsLeftAlone ==
    (/\ RunDone
     /\ sourcePath.isfile
     /\ sourcePath.ext = EXTENSION
     /\ os_path_isdir(dirs0, PrjDir(sourcePath))
     /\ dirs0[PrjDir(sourcePath)].lock)
        => /\ Failed("Please exit novelWriter.")
           /\ dirs = dirs0
           /\ ioLog = <<>>

\* The group icons a node carries, and whether the export of the group of an
\* icon is on.
GroupIconsOf(kw, xmlNode) ==
    Range(xmlNode.icon) \cap {kw.main_characters_icon, kw.minor_characters_icon,
                              kw.locations_icon, kw.items_icon}

ExportOf(kw, icon) ==
    IF icon \in {kw.main_characters_icon, kw.minor_characters_icon} THEN kw.export_characters
    ELSE IF icon = kw.locations_icon THEN kw.export_locations
    ELSE kw.export_items

====
